---- MODULE Spec2Model ----
(***************************************************************************)
(* The voice session orchestrator of mitra-ai:                             *)
(*   services/live_voice_service.py  (LiveVoiceService)                    *)
(*   routers/voice.py                (websocket endpoint, HTTP routes)     *)
(*                                                                         *)
(* asyncio runs the coroutines of one event loop cooperatively: a task     *)
(* runs without interruption from one await on real I/O to the next.  An   *)
(* action of this module is one such run of one task.  The I/O an await    *)
(* starts takes effect in the action that starts it; the action that       *)
(* resumes the task continues after the await.                             *)
(***************************************************************************)
EXTENDS Integers, Sequences, FiniteSets, TLC

\* Session ids handed out by uuid4, in the order of creation.
Sids == {1, 2}
\* Firebase uids.
Users == {"u1", "u2"}
\* The token query parameter of an attach: absent, rejected by
\* verify_id_token, or verified as a uid.
Tokens == Users \cup {"none", "bad"}
\* Client websocket connections; each is one call of voice_websocket_endpoint.
Wss == {1, 2}

\* The readings of datetime.utcnow() are 1..MaxClock (0 stands for None).
MaxClock == 2
\* Transcript fragments handled per session.
MaxFragments == 2
\* Clock readings per second: int(timedelta.total_seconds()) drops the rest.
TicksPerSecond == 2

\* VoiceSessionState
CONNECTING == "connecting"
CONNECTED  == "connected"
LISTENING  == "listening"
PROCESSING == "processing"
TALKING    == "talking"
ERROR      == "error"
ENDED      == "ended"
VoiceSessionState ==
    {CONNECTING, CONNECTED, LISTENING, PROCESSING, TALKING, ERROR, ENDED}
Terminal == {ENDED, ERROR}

\* Message types a client sends on the websocket; "audio_empty" is an
\* audio_stream without audio data, "bad_json" a frame receive_json rejects.
ClientMessages ==
    {"audio_stream", "audio_empty", "audio_end", "start_speaking",
     "stop_speaking", "ping", "get_transcript", "end_session", "unknown",
     "bad_json"}
\* Shapes of a message read from the Live API stream.
LiveMessages == {"audio", "text", "bytes", "str", "usage"}

\* The tasks of the event loop: one websocket handler and one engine listen
\* task per connection, one HTTP DELETE request, one direct caller of
\* _handle_transcript.
WsTask(w)  == <<"ws", w>>
EngTask(w) == <<"eng", w>>
HttpTask   == <<"http", 1>>
UnitTask   == <<"unit", 1>>
Tasks == {WsTask(w) : w \in Wss} \cup {EngTask(w) : w \in Wss}
            \cup {HttpTask, UnitTask}

VARIABLES
    active,     \* the keys of LiveVoiceService.active_sessions
    sess,       \* per session id: the VoiceSession and its session_data dict
    nextId,     \* number of sessions created
    task,       \* per task: where it is suspended, and its local variables
    wsock,      \* per client websocket: its connection state
    conn,       \* per Live API connection: its state
    delFailed,  \* per session id: KeyErrors raised by del active_sessions[id]
    seen,       \* per session id: the terminal states it has held
    fragLog,    \* per session id: the fragments given to _handle_transcript
    step,       \* the last action: its calls and sends among the Tracked
    reply       \* the answer to the last HTTP GET request

vars == <<active, sess, nextId, task, wsock, conn, delFailed, seen, fragLog,
          step, reply>>

----------------------------------------------------------------------------
\* A session created as already connected.
NewSessionConnected(u) ==
    [user_id |-> u, state |-> CONNECTED, connected_at |-> 1, ended_at |-> 0,
     total_duration_seconds |-> 0, transcript |-> <<>>,
     sd_transcript |-> <<>>, live_session |-> 0, live_connection |-> 0,
     websocket |-> 0, is_speaking |-> FALSE, conversation_started |-> FALSE]

\* VoiceSession(...) and the session_data dict of create_voice_session.
NewSession(u) ==
    [user_id |-> u, state |-> CONNECTING, connected_at |-> 0, ended_at |-> 0,
     total_duration_seconds |-> 0, transcript |-> <<>>,
     sd_transcript |-> <<>>, live_session |-> 0, live_connection |-> 0,
     websocket |-> 0, is_speaking |-> FALSE, conversation_started |-> FALSE]

\* A session id no create_voice_session has produced yet.
NoSession == [NewSession("") EXCEPT !.state = "none"]

\* A task that is not running.
IdleTask ==
    [pc |-> "idle", sid |-> 0, w |-> 0, tok |-> "none", ret |-> "done",
     lsess |-> 0,
     role |-> "", final |-> FALSE, unauth |-> FALSE, openFailed |-> FALSE,
     sawDrop |-> FALSE, raised |-> FALSE]

\* No HTTP GET request has been answered yet.
NoReply == [op |-> "none", user |-> "", sid |-> 0, status |-> 0, body |-> {}]

\* A client websocket before the client connects.
NewWebSocket ==
    [closed |-> FALSE, gone |-> FALSE, closeCalls |-> 0, code |-> 0,
     got |-> {}]

\* A Live API connection before connect().
NewConnection == [opened |-> FALSE, exited |-> FALSE, closeCalls |-> 0]

\* The calls and the events the step variable records of an action, each
\* as <<name, session id or websocket, is_final>>.
Tracked ==
    {"end_voice_session", "start_live_conversation", "transcript",
     "state_change", "HTTPException_403", "audio_chunk", "pong",
     "error", "usage", "send_audio_input"}
\* The events a websocket remembers having delivered to its client.
Remembered == {"error", "session_ended", "connected"}

\* The state an action starts from, with the reading of datetime.utcnow()
\* it will get and what it has called and sent so far.
World(now) ==
    [active |-> active, sess |-> sess, wsock |-> wsock, conn |-> conn,
     delFailed |-> delFailed, seen |-> seen, now |-> now, step |-> {}]

\* voice_session.state = new_state; a terminal state is remembered.
SetState(wd, s, new_state) ==
    [wd EXCEPT !.sess[s].state = new_state,
               !.seen[s] = @ \cup ({new_state} \cap Terminal)]

Note(wd, name, x, flag) ==
    IF name \in Tracked THEN [wd EXCEPT !.step = @ \cup {<<name, x, flag>>}]
                        ELSE wd

Call(wd, fn, s) == Note(wd, fn, s, FALSE)

Max(S) == CHOOSE x \in S : \A y \in S : y <= x

\* The latest reading of datetime.utcnow() a session still holds.  The
\* clock does not run backwards: a new reading is no earlier.
LastStamp ==
    Max({1} \cup {sess[s].connected_at : s \in Sids}
            \cup {sess[s].ended_at : s \in Sids}
            \cup UNION {{sess[s].transcript[i].timestamp :
                            i \in 1..Len(sess[s].transcript)} : s \in Sids})
Readings == LastStamp..MaxClock

----------------------------------------------------------------------------
\* websocket.send_json.  Starlette raises once the server has closed the
\* socket; after the client has gone the send raises or is dropped, by the
\* server in use (lossy).  None (0) has no send_json.
send_json(wd, w, type, is_final, lossy) ==
    IF w = 0 \/ wd.wsock[w].closed \/ (wd.wsock[w].gone /\ lossy)
    THEN [wd |-> wd, ok |-> FALSE]
    ELSE IF wd.wsock[w].gone
    THEN [wd |-> wd, ok |-> TRUE]
    ELSE [wd |-> Note([wd EXCEPT !.wsock[w].got =
                                     @ \cup ({type} \cap Remembered)],
                       type, w, is_final),
          ok |-> TRUE]

\* websocket.close(code): raises when the server has already closed it.
ws_close(wd, w, code) ==
    IF wd.wsock[w].closed
    THEN [wd |-> [wd EXCEPT !.wsock[w].closeCalls = @ + 1], ok |-> FALSE]
    ELSE [wd |-> [wd EXCEPT !.wsock[w].closeCalls = @ + 1,
                            !.wsock[w].closed = TRUE,
                            !.wsock[w].code = code],
          ok |-> TRUE]

\* live_connection.__aexit__(None, None, None): the first call closes the
\* Live API connection and suspends; a later one returns or raises at once.
live_aexit(wd, c) ==
    IF wd.conn[c].exited
    THEN [wd |-> [wd EXCEPT !.conn[c].closeCalls = @ + 1], susp |-> FALSE]
    ELSE [wd |-> [wd EXCEPT !.conn[c].closeCalls = @ + 1,
                            !.conn[c].exited = TRUE],
          susp |-> TRUE]

----------------------------------------------------------------------------
\* _update_session_state assigning the state to every registered session.
UpdateSessionStateOfAll(wd, s, new_state, lossy) ==
    LET w1 == Call(wd, "_update_session_state", s) IN
    IF s \notin w1.active
    THEN [wd |-> w1, susp |-> FALSE]
    ELSE LET w2 == [SetState(w1, s, new_state) EXCEPT
                      !.sess = [x \in Sids |->
                                  IF x \in w1.active
                                  THEN [@[x] EXCEPT !.state = new_state]
                                  ELSE @[x]]]
             r  == send_json(w2, w2.sess[s].websocket, "state_change", FALSE,
                             lossy)
         IN  [wd |-> r.wd, susp |-> r.ok]

\* _update_session_state, to its await of send_json or its return.  The
\* state is assigned whatever the current state is.
_update_session_state(wd, s, new_state, lossy) ==
    LET w1 == Call(wd, "_update_session_state", s) IN
    IF s \notin w1.active
    THEN [wd |-> w1, susp |-> FALSE]
    ELSE LET w2 == SetState(w1, s, new_state)
             r  == send_json(w2, w2.sess[s].websocket, "state_change", FALSE,
                             lossy)
         IN  [wd |-> r.wd, susp |-> r.ok]

\* get_active_sessions_count: len(self.active_sessions).
get_active_sessions_count == Cardinality(active)

\* _cleanup_session closing the websocket last stored for the id even when
\* the id is no longer registered.
CleanupSessionClosesAbsent(wd, s) ==
    LET w1 == Call(wd, "_cleanup_session", s)
        w  == w1.sess[s].websocket
    IN
    IF w = 0
    THEN [wd |-> [w1 EXCEPT !.active = @ \ {s}], susp |-> FALSE]
    ELSE LET r == ws_close(w1, w, 1000) IN
         IF r.ok /\ s \in w1.active
         THEN [wd |-> r.wd, susp |-> TRUE]
         ELSE [wd |-> [r.wd EXCEPT !.active = @ \ {s}], susp |-> FALSE]

\* _cleanup_session with the deletion inside the try block of
\* websocket.close(): a close that raises skips it.
CleanupSessionCloseGuardsDelete(wd, s) ==
    LET w1 == Call(wd, "_cleanup_session", s) IN
    IF s \notin w1.active
    THEN [wd |-> w1, susp |-> FALSE]
    ELSE LET w == w1.sess[s].websocket IN
         IF w = 0
         THEN [wd |-> [w1 EXCEPT !.active = @ \ {s}], susp |-> FALSE]
         ELSE LET r == ws_close(w1, w, 1000) IN
              [wd |-> r.wd, susp |-> r.ok]

\* _cleanup_session, to its await of websocket.close() or its return.
_cleanup_session(wd, s) ==
    LET w1 == Call(wd, "_cleanup_session", s) IN
    IF s \notin w1.active
    THEN [wd |-> w1, susp |-> FALSE]
    ELSE LET w == w1.sess[s].websocket IN
         IF w = 0
         THEN [wd |-> [w1 EXCEPT !.active = @ \ {s}], susp |-> FALSE]
         ELSE LET r == ws_close(w1, w, 1000) IN
              IF r.ok
              THEN [wd |-> r.wd, susp |-> TRUE]
              ELSE [wd |-> [r.wd EXCEPT !.active = @ \ {s}], susp |-> FALSE]

\* _cleanup_session after websocket.close(): del self.active_sessions[id].
\* The KeyError of a key already deleted is caught and logged.
_cleanup_session_del(wd, s) ==
    IF s \in wd.active
    THEN [wd EXCEPT !.active = @ \ {s}]
    ELSE [wd EXCEPT !.delFailed[s] = @ + 1]

\* end_voice_session, to its first await or its return: susp is "aexit"
\* (awaiting live_connection.__aexit__), "close" (awaiting websocket.close()
\* in _cleanup_session) or "no" (returned).
end_voice_session(wd, s) ==
    LET w1 == Call(wd, "end_voice_session", s) IN
    IF s \notin w1.active
    THEN LET c == _cleanup_session(w1, s) IN [wd |-> c.wd, susp |-> "no"]
    ELSE LET w2 == w1
             w3 == [SetState(w2, s, ENDED) EXCEPT
                       !.sess[s].ended_at = w2.now]
             w4 == IF w3.sess[s].connected_at # 0
                   THEN [w3 EXCEPT !.sess[s].total_duration_seconds =
                            (w3.now - w3.sess[s].connected_at)
                                \div TicksPerSecond]
                   ELSE w3
             lc == w4.sess[s].live_connection
             x  == IF lc # 0 THEN live_aexit(w4, lc)
                             ELSE [wd |-> w4, susp |-> FALSE]
         IN  IF x.susp
             THEN [wd |-> x.wd, susp |-> "aexit"]
             ELSE LET c == _cleanup_session(x.wd, s)
                  IN  [wd |-> c.wd,
                       susp |-> IF c.susp THEN "close" ELSE "no"]

\* _handle_transcript with a final fragment taking the place of the
\* entries stored so far.
HandleTranscriptReplacing(wd, s, role, text, is_final, lossy) ==
    LET w1 == Call(wd, "_handle_transcript", s) IN
    IF s \notin w1.active
    THEN [wd |-> w1, susp |-> FALSE]
    ELSE LET entry == [role |-> role, text |-> text, timestamp |-> w1.now]
             w3 == IF is_final
                   THEN [w1 EXCEPT !.sess[s].sd_transcript = <<entry>>,
                                   !.sess[s].transcript = <<entry>>]
                   ELSE w1
             r  == send_json(w3, w3.sess[s].websocket, "transcript",
                             is_final, lossy)
         IN  [wd |-> r.wd, susp |-> r.ok]

\* _handle_transcript without the test of is_final: every fragment is
\* appended.
HandleTranscriptAppendingAll(wd, s, role, text, is_final, lossy) ==
    LET w1 == Call(wd, "_handle_transcript", s) IN
    IF s \notin w1.active
    THEN [wd |-> w1, susp |-> FALSE]
    ELSE LET entry == [role |-> role, text |-> text, timestamp |-> w1.now]
             w3 == [w1 EXCEPT !.sess[s].sd_transcript = Append(@, entry),
                              !.sess[s].transcript = Append(@, entry)]
             r  == send_json(w3, w3.sess[s].websocket, "transcript",
                             is_final, lossy)
         IN  [wd |-> r.wd, susp |-> r.ok]

\* _handle_transcript putting a final fragment in front of the entries
\* stored so far.
HandleTranscriptPrepending(wd, s, role, text, is_final, lossy) ==
    LET w1 == Call(wd, "_handle_transcript", s) IN
    IF s \notin w1.active
    THEN [wd |-> w1, susp |-> FALSE]
    ELSE LET entry == [role |-> role, text |-> text, timestamp |-> w1.now]
             w3 == IF is_final
                   THEN [w1 EXCEPT
                           !.sess[s].sd_transcript = <<entry>> \o @,
                           !.sess[s].transcript = <<entry>> \o @]
                   ELSE w1
             r  == send_json(w3, w3.sess[s].websocket, "transcript",
                             is_final, lossy)
         IN  [wd |-> r.wd, susp |-> r.ok]

\* _handle_transcript storing a final fragment in VoiceSession.transcript
\* only.
HandleTranscriptSessionOnly(wd, s, role, text, is_final, lossy) ==
    LET w1 == Call(wd, "_handle_transcript", s) IN
    IF s \notin w1.active
    THEN [wd |-> w1, susp |-> FALSE]
    ELSE LET entry == [role |-> role, text |-> text, timestamp |-> w1.now]
             w3 == IF is_final
                   THEN [w1 EXCEPT !.sess[s].transcript = Append(@, entry)]
                   ELSE w1
             r  == send_json(w3, w3.sess[s].websocket, "transcript",
                             is_final, lossy)
         IN  [wd |-> r.wd, susp |-> r.ok]

\* _handle_transcript, to its await of send_json or its return.
_handle_transcript(wd, s, role, text, is_final, lossy) ==
    LET w1 == Call(wd, "_handle_transcript", s) IN
    IF s \notin w1.active
    THEN [wd |-> w1, susp |-> FALSE]
    ELSE LET w2 == w1
             entry == [role |-> role, text |-> text, timestamp |-> w2.now]
             w3 == IF is_final
                   THEN [w2 EXCEPT
                           !.sess[s].sd_transcript = Append(@, entry),
                           !.sess[s].transcript = Append(@, entry)]
                   ELSE w2
             r  == send_json(w3, w3.sess[s].websocket, "transcript",
                             is_final, lossy)
         IN  [wd |-> r.wd, susp |-> r.ok]

\* _send_usage_info, to its await of send_json or its return.  Nothing in
\* the service calls it.
_send_usage_info(wd, s, lossy) ==
    LET w1 == Call(wd, "_send_usage_info", s) IN
    IF s \notin w1.active
    THEN [wd |-> w1, susp |-> FALSE]
    ELSE LET r == send_json(w1, w1.sess[s].websocket, "usage", FALSE, lossy)
         IN  [wd |-> r.wd, susp |-> r.ok]

\* _handle_transcript after its send_json: the state update by role.
_handle_transcript_state(wd, s, role, is_final, lossy) ==
    IF role = "user" /\ is_final
    THEN _update_session_state(wd, s, PROCESSING, lossy).wd
    ELSE IF role = "assistant" /\ is_final
    THEN _update_session_state(wd, s, LISTENING, lossy).wd
    ELSE wd

----------------------------------------------------------------------------
Init ==
    /\ active = {}
    /\ sess = [s \in Sids |-> NoSession]
    /\ nextId = 0
    /\ task = [t \in Tasks |-> IdleTask]
    /\ wsock = [w \in Wss |-> NewWebSocket]
    /\ conn = [w \in Wss |-> NewConnection]
    /\ delFailed = [s \in Sids |-> 0]
    /\ seen = [s \in Sids |-> {}]
    /\ fragLog = [s \in Sids |-> <<>>]
    /\ step = {}
    /\ reply = NoReply

\* What an action leaves behind: the world it reached and the record of
\* the step.
Commit(wd) ==
    /\ active' = wd.active
    /\ sess' = wd.sess
    /\ wsock' = wd.wsock
    /\ conn' = wd.conn
    /\ delFailed' = wd.delFailed
    /\ seen' = wd.seen
    /\ step' = wd.step
    /\ UNCHANGED reply

\* The same, for a step of task t that leaves its record as rec.
CommitTask(r, t) ==
    /\ Commit(r.wd)
    /\ task' = [task EXCEPT ![t] = r.rec]
    /\ UNCHANGED nextId

At(rec, pc) == [rec EXCEPT !.pc = pc]

----------------------------------------------------------------------------
\* POST /voice/start: create_voice_session.
create_voice_session(u) ==
    /\ nextId + 1 \in Sids
    /\ LET s  == nextId + 1
           w1 == Call(World(0), "create_voice_session", s)
           w2 == [w1 EXCEPT !.active = @ \cup {s}, !.sess[s] = NewSession(u)]
       IN  /\ Commit(w2)
           /\ nextId' = s
           /\ UNCHANGED <<task, fragLog>>

----------------------------------------------------------------------------
\* The finally of voice_websocket_endpoint, and DELETE /voice/session: a
\* call of end_voice_session whose return ends the caller.
EndFinally(wd, rec) ==
    LET r == end_voice_session(wd, rec.sid) IN
    [wd |-> r.wd,
     rec |-> [rec EXCEPT !.ret = "done",
                         !.pc = CASE r.susp = "aexit" -> "evs_aexit"
                                  [] r.susp = "close" -> "cs_close"
                                  [] OTHER -> "done"]]

\* send_json on the handler's own websocket inside the second try block:
\* the handler goes on to pc, or the exception reaches the finally.
OwnSend(wd, rec, type, lossy, pc) ==
    LET r == send_json(wd, rec.w, type, FALSE, lossy) IN
    IF r.ok THEN [wd |-> r.wd, rec |-> At(rec, pc)]
            ELSE EndFinally(r.wd, rec)

\* end_voice_session has returned to its caller.  After the end_session
\* message the handler sends session_ended (_handle_websocket_message).
AfterEnd(wd, rec, lossy) ==
    IF rec.ret = "end_msg"
    THEN OwnSend(wd, rec, "session_ended", lossy, "recv")
    ELSE [wd |-> wd, rec |-> At(rec, "done")]

\* The end_session message: await end_voice_session, then session_ended.
EndFromMessage(wd, rec, lossy) ==
    LET r  == end_voice_session(wd, rec.sid)
        r1 == [rec EXCEPT !.ret = "end_msg"]
    IN  CASE r.susp = "aexit" -> [wd |-> r.wd, rec |-> At(r1, "evs_aexit")]
          [] r.susp = "close" -> [wd |-> r.wd, rec |-> At(r1, "cs_close")]
          [] OTHER -> AfterEnd(r.wd, r1, lossy)

\* An HTTP request whose handler has returned is over.
Answered(r) ==
    IF r.rec.w = 0 /\ r.rec.pc = "done" THEN [r EXCEPT !.rec = IdleTask]
                                         ELSE r

\* end_voice_session resumes from live_connection.__aexit__: its finally.
EndAexitResumed(t, now, lossy) ==
    /\ task[t].pc = "evs_aexit"
    /\ LET c == _cleanup_session(World(now), task[t].sid) IN
       CommitTask(IF c.susp
                  THEN [wd |-> c.wd, rec |-> At(task[t], "cs_close")]
                  ELSE Answered(AfterEnd(c.wd, task[t], lossy)), t)
    /\ UNCHANGED fragLog

\* _cleanup_session resumes from websocket.close(), in the engine task's
\* finally or in end_voice_session's.
CleanupResumed(t, now, lossy) ==
    /\ task[t].pc = "cs_close"
    /\ LET w1 == _cleanup_session_del(World(now), task[t].sid) IN
       CommitTask(IF t[1] = "eng"
                  THEN [wd |-> w1, rec |-> At(task[t], "done")]
                  ELSE Answered(AfterEnd(w1, task[t], lossy)), t)
    /\ UNCHANGED fragLog

----------------------------------------------------------------------------
\* voice_websocket_endpoint: the checks of an attach.
token_missing(tok) == tok = "none"

\* get_current_user_from_token: the uid, or the HTTPException(401).
get_current_user_from_token(tok) ==
    IF tok \in Users THEN tok ELSE "HTTPException"

\* The session check without the comparison of the owner.
SessionVerifiedAnyUser(wd, s, current_user) == s \in wd.active

\* not (not voice_session or voice_session.user_id != current_user)
session_verified(wd, s, current_user) ==
    s \in wd.active /\ wd.sess[s].user_id = current_user

\* Whether an attach with this token to this session fails authorization
\* in the current state.
FailsAuthorization(tok, s) ==
    tok \notin Users \/ s \notin active \/ sess[s].user_id # tok

\* The error event and return of a rejected attach (first try block): an
\* exception of the send leaves the handler without the close.
Reject(wd, rec, lossy) ==
    LET r == send_json(wd, rec.w, "error", FALSE, lossy) IN
    [wd |-> r.wd, rec |-> At(rec, IF r.ok THEN "rej_close" ELSE "done")]

\* A client opens /voice/connect/{s}?token=tok: await websocket.accept().
AttachBegin(w, s, tok) ==
    /\ task[WsTask(w)].pc = "idle"
    /\ \A v \in Wss : v < w => task[WsTask(v)].pc # "idle"
    /\ CommitTask([wd |-> Call(World(0), "voice_websocket_endpoint", s),
                   rec |-> [IdleTask EXCEPT !.pc = "accepted", !.sid = s,
                                            !.w = w, !.tok = tok]],
                  WsTask(w))
    /\ UNCHANGED fragLog

\* After accept(): the token query parameter.
HandlerAccepted(w, lossy) ==
    LET t == WsTask(w)  rec == task[t] IN
    /\ rec.pc = "accepted"
    /\ CommitTask(IF token_missing(rec.tok)
                  THEN Reject(World(0),
                              [rec EXCEPT !.unauth =
                                  FailsAuthorization(rec.tok, rec.sid)],
                              lossy)
                  ELSE [wd |-> World(0), rec |-> At(rec, "verify")], t)
    /\ UNCHANGED fragLog

\* After verify_id_token: the session check, then start_live_conversation
\* to its await of live_connection.__aenter__().
HandlerVerified(w, lossy) ==
    LET t == WsTask(w)
        rec == [task[t] EXCEPT
                  !.unauth = FailsAuthorization(task[t].tok, task[t].sid)]
        cu == get_current_user_from_token(rec.tok)
        w1 == Call(World(0), "get_session_info", rec.sid)
        w2 == Call(w1, "start_live_conversation", rec.sid)
    IN
    /\ rec.pc = "verify"
    /\ CommitTask(IF cu = "HTTPException"
                  THEN Reject(World(0), rec, lossy)
                  ELSE IF ~session_verified(w1, rec.sid, cu)
                  THEN Reject(w1, rec, lossy)
                  ELSE IF rec.sid \notin w2.active
                  THEN OwnSend(w2, rec, "error", lossy, "fail_close")
                  ELSE [wd |-> w2, rec |-> At(rec, "connect")], t)
    /\ UNCHANGED fragLog

\* A rejected attach: websocket.close(code=1008), return.
HandlerRejClose(w) ==
    LET t == WsTask(w) IN
    /\ task[t].pc = "rej_close"
    /\ CommitTask([wd |-> ws_close(World(0), w, 1008).wd,
                   rec |-> At(task[t], "done")], t)
    /\ UNCHANGED fragLog

\* start_live_conversation after __aenter__() returned, assigning
\* CONNECTED and connected_at without storing the websocket.
StartLiveConversationWithoutWebsocket(wd, rec) ==
    LET s  == rec.sid
        w1 == [SetState(wd, s, CONNECTED) EXCEPT
                  !.conn[rec.w].opened = TRUE,
                  !.sess[s].live_session = rec.w,
                  !.sess[s].live_connection = rec.w]
        w2 == [w1 EXCEPT !.sess[s].connected_at = w1.now]
    IN  [wd |-> Call(w2, "_send_initial_greeting", s)]

\* start_live_conversation after __aenter__() returned the Live session:
\* the handles, CONNECTED, connected_at, create_task, and the greeting to
\* its await of live_session.send_text.
start_live_conversation_connected(wd, rec) ==
    LET s  == rec.sid
        w1 == [SetState(wd, s, CONNECTED) EXCEPT
                  !.conn[rec.w].opened = TRUE,
                  !.sess[s].live_session = rec.w,
                  !.sess[s].live_connection = rec.w,
                  !.sess[s].websocket = rec.w]
        w2 == [w1 EXCEPT !.sess[s].connected_at = w1.now]
    IN  [wd |-> Call(w2, "_send_initial_greeting", s)]

\* start_live_conversation when __aenter__() raised: the except clause.
start_live_conversation_failed(wd, rec, lossy) ==
    _update_session_state(wd, rec.sid, ERROR, lossy)

\* The connected event of voice_websocket_endpoint: its timestamp reads
\* get_session_info(session_id).connected_at, an AttributeError when the
\* session is gone.
SendConnected(wd, rec, lossy) ==
    LET w1 == Call(wd, "get_session_info", rec.sid) IN
    IF rec.sid \notin w1.active
    THEN EndFinally(w1, rec)
    ELSE OwnSend(w1, rec, "connected", lossy, "recv")

\* live_connection.__aenter__() returns (ok) or raises: the rest of
\* start_live_conversation, with the task create_task schedules.
HandlerConnected(w, ok, now, lossy) ==
    LET t == WsTask(w)  rec == task[t]  s == rec.sid IN
    /\ rec.pc = "connect"
    /\ IF ok
       THEN LET r == start_live_conversation_connected(World(now), rec)
                c == IF s \in r.wd.active
                     THEN [wd |-> r.wd, rec |-> At(rec, "greet")]
                     ELSE SendConnected(r.wd, rec, lossy)
            IN
            /\ Commit(c.wd)
            /\ task' = [task EXCEPT
                 ![t] = c.rec,
                 ![EngTask(w)] =
                     [IdleTask EXCEPT !.pc = "new", !.sid = s, !.w = w]]
            /\ UNCHANGED nextId
       ELSE LET r  == start_live_conversation_failed(World(now), rec, lossy)
                r1 == [rec EXCEPT !.openFailed = TRUE]
            IN  CommitTask(IF r.susp
                           THEN [wd |-> r.wd, rec |-> At(r1, "slc_err_sent")]
                           ELSE OwnSend(r.wd, r1, "error", lossy,
                                        "fail_close"), t)
    /\ UNCHANGED fragLog

\* start_live_conversation returned False after its state_change send.
HandlerErrSent(w, now, lossy) ==
    LET t == WsTask(w) IN
    /\ task[t].pc = "slc_err_sent"
    /\ CommitTask(OwnSend(World(now), task[t], "error", lossy,
                          "fail_close"), t)
    /\ UNCHANGED fragLog

\* After the error event of a failed start: await websocket.close().
HandlerFailClose(w, now) ==
    LET t == WsTask(w)
        r == ws_close(World(now), w, 1000)
    IN
    /\ task[t].pc = "fail_close"
    /\ CommitTask(IF r.ok THEN [wd |-> r.wd, rec |-> At(task[t], "fail_ret")]
                          ELSE EndFinally(r.wd, task[t]), t)
    /\ UNCHANGED fragLog

\* The return after that close, without the finally.
HandlerFailReturnWithoutEnd(w, now) ==
    LET t == WsTask(w) IN
    /\ task[t].pc = "fail_ret"
    /\ CommitTask([wd |-> World(now), rec |-> At(task[t], "done")], t)
    /\ UNCHANGED fragLog

\* After that close: return, through the finally.
HandlerFailReturn(w, now) ==
    LET t == WsTask(w) IN
    /\ task[t].pc = "fail_ret"
    /\ CommitTask(EndFinally(World(now), task[t]), t)
    /\ UNCHANGED fragLog

\* _send_initial_greeting after send_text, start_live_conversation's return
\* True, and the connected event.
HandlerGreeted(w, ok, now, lossy) ==
    LET t == WsTask(w)  rec == task[t]
        w0 == World(now)
        w1 == IF ok
              THEN [w0 EXCEPT !.sess[rec.sid].conversation_started = TRUE]
              ELSE w0
    IN
    /\ rec.pc = "greet"
    /\ ok => ~conn[w].exited
    /\ CommitTask(SendConnected(w1, rec, lossy), t)
    /\ UNCHANGED fragLog

----------------------------------------------------------------------------
\* The client closes its end of the websocket, or its network drops.
ClientDisconnect(w) ==
    /\ task[WsTask(w)].pc \notin {"idle", "done"}
    /\ ~wsock[w].gone /\ ~wsock[w].closed
    /\ wsock' = [wsock EXCEPT ![w].gone = TRUE]
    /\ step' = {}
    /\ UNCHANGED <<active, sess, nextId, task, conn, delFailed, seen,
                   fragLog, reply>>

\* receive_json raises: WebSocketDisconnect when the client has gone (break),
\* RuntimeError when the server has closed the socket (the error send of the
\* except clause raises too).  Either way the finally runs.
HandlerDisconnected(w, now) ==
    LET t == WsTask(w)  rec == task[t]
        r1 == [rec EXCEPT !.sawDrop =
                  /\ ~wsock[w].closed
                  /\ rec.sid \in active
                  /\ sess[rec.sid].websocket = w
                  /\ sess[rec.sid].state \notin Terminal]
    IN
    /\ rec.pc = "recv"
    /\ wsock[w].gone \/ wsock[w].closed
    /\ CommitTask(EndFinally(World(now), r1), t)
    /\ UNCHANGED fragLog

\* send_audio_input using the Live API session last stored for the id
\* without looking the id up in active_sessions.
SendAudioInputUnchecked(wd, rec) ==
    LET s  == rec.sid
        w1 == Call(wd, "send_audio_input", s)
    IN  IF w1.sess[s].live_session = 0
        THEN [wd |-> w1, rec |-> At(rec, "recv")]
        ELSE [wd |-> w1,
              rec |-> [rec EXCEPT !.pc = "audio_send",
                                  !.lsess = w1.sess[s].live_session]]

\* send_audio_input, to its await of live_session.send_audio.
send_audio_input(wd, rec) ==
    LET s  == rec.sid
        w1 == Call(wd, "send_audio_input", s)
    IN  IF s \notin w1.active \/ w1.sess[s].live_session = 0
        THEN [wd |-> w1, rec |-> At(rec, "recv")]
        ELSE [wd |-> w1,
              rec |-> [rec EXCEPT !.pc = "audio_send",
                                  !.lsess = w1.sess[s].live_session]]

\* send_audio_input after send_audio: the first chunk of an utterance sets
\* is_speaking and moves the session to PROCESSING.
send_audio_input_sent(wd, rec, ok, lossy) ==
    LET s == rec.sid IN
    IF ok /\ ~wd.sess[s].is_speaking
    THEN _update_session_state([wd EXCEPT !.sess[s].is_speaking = TRUE],
                               s, PROCESSING, lossy).wd
    ELSE wd

\* send_audio_stream_end.
send_audio_stream_end(wd, s) ==
    LET w1 == Call(wd, "send_audio_stream_end", s) IN
    IF s \notin w1.active \/ w1.sess[s].live_session = 0
    THEN w1
    ELSE [w1 EXCEPT !.sess[s].is_speaking = FALSE]

\* start_speaking / stop_speaking of _handle_websocket_message.
SetSpeaking(wd, rec, flag, lossy) ==
    IF rec.sid \in wd.active
    THEN OwnSend([wd EXCEPT !.sess[rec.sid].is_speaking = flag], rec,
                 "speaking_state", lossy, "recv")
    ELSE [wd |-> wd, rec |-> At(rec, "recv")]

\* _handle_websocket_message with a message of unknown type ending the
\* session.
HandleWebsocketMessageUnknownEnds(wd, rec, m, lossy) ==
    LET w1 == Call(wd, "_handle_websocket_message", rec.sid) IN
    CASE m = "audio_stream"   -> send_audio_input(w1, rec)
      [] m = "audio_empty"    -> OwnSend(w1, rec, "error", lossy, "recv")
      [] m = "audio_end"      ->
            [wd |-> send_audio_stream_end(w1, rec.sid),
             rec |-> At(rec, "recv")]
      [] m = "start_speaking" -> SetSpeaking(w1, rec, TRUE, lossy)
      [] m = "stop_speaking"  -> SetSpeaking(w1, rec, FALSE, lossy)
      [] m = "ping"           -> OwnSend(w1, rec, "pong", lossy, "recv")
      [] m = "get_transcript" ->
            OwnSend(Call(w1, "get_session_transcript", rec.sid), rec,
                    "transcript_history", lossy, "recv")
      [] OTHER                -> EndFromMessage(w1, rec, lossy)

\* _handle_websocket_message with a ping taken for an audio_stream chunk.
HandleWebsocketMessagePingAsAudio(wd, rec, m, lossy) ==
    LET w1 == Call(wd, "_handle_websocket_message", rec.sid) IN
    CASE m \in {"audio_stream", "ping"} -> send_audio_input(w1, rec)
      [] m = "audio_empty"    -> OwnSend(w1, rec, "error", lossy, "recv")
      [] m = "audio_end"      ->
            [wd |-> send_audio_stream_end(w1, rec.sid),
             rec |-> At(rec, "recv")]
      [] m = "start_speaking" -> SetSpeaking(w1, rec, TRUE, lossy)
      [] m = "stop_speaking"  -> SetSpeaking(w1, rec, FALSE, lossy)
      [] m = "get_transcript" ->
            OwnSend(Call(w1, "get_session_transcript", rec.sid), rec,
                    "transcript_history", lossy, "recv")
      [] m = "end_session"    -> EndFromMessage(w1, rec, lossy)
      [] OTHER                -> OwnSend(w1, rec, "error", lossy, "recv")

\* _handle_websocket_message, to its first await.
_handle_websocket_message(wd, rec, m, lossy) ==
    LET w1 == Call(wd, "_handle_websocket_message", rec.sid) IN
    CASE m = "audio_stream"   -> send_audio_input(w1, rec)
      [] m = "audio_empty"    -> OwnSend(w1, rec, "error", lossy, "recv")
      [] m = "audio_end"      ->
            [wd |-> send_audio_stream_end(w1, rec.sid),
             rec |-> At(rec, "recv")]
      [] m = "start_speaking" -> SetSpeaking(w1, rec, TRUE, lossy)
      [] m = "stop_speaking"  -> SetSpeaking(w1, rec, FALSE, lossy)
      [] m = "ping"           -> OwnSend(w1, rec, "pong", lossy, "recv")
      [] m = "get_transcript" ->
            OwnSend(Call(w1, "get_session_transcript", rec.sid), rec,
                    "transcript_history", lossy, "recv")
      [] m = "end_session"    -> EndFromMessage(w1, rec, lossy)
      [] OTHER                -> OwnSend(w1, rec, "error", lossy, "recv")

\* The message loop of voice_websocket_endpoint: receive_json returns a
\* message, or raises JSONDecodeError.
HandlerMessage(w, m, now, lossy) ==
    LET t == WsTask(w)  rec == task[t] IN
    /\ rec.pc = "recv"
    /\ ~wsock[w].gone /\ ~wsock[w].closed
    /\ CommitTask(IF m = "bad_json"
                  THEN OwnSend(World(now), rec, "error", lossy, "recv")
                  ELSE _handle_websocket_message(World(now), rec, m, lossy),
                  t)
    /\ UNCHANGED fragLog

\* send_audio_input resumes from live_session.send_audio.
HandlerAudioSent(w, ok, lossy) ==
    LET t == WsTask(w)  rec == task[t] IN
    /\ rec.pc = "audio_send"
    /\ ok => ~conn[rec.lsess].exited
    /\ CommitTask([wd |-> send_audio_input_sent(World(0), rec, ok, lossy),
                   rec |-> At(rec, "recv")], t)
    /\ UNCHANGED fragLog

----------------------------------------------------------------------------
\* _handle_live_session without its finally: the task ends with no
\* cleanup.
EngineFinallyWithoutCleanup(wd, rec) ==
    [wd |-> wd, rec |-> At(rec, "done")]

\* The finally of _handle_live_session.
EngineFinally(wd, rec) ==
    LET c == _cleanup_session(wd, rec.sid) IN
    [wd |-> c.wd, rec |-> At(rec, IF c.susp THEN "cs_close" ELSE "done")]

\* _handle_live_session, first run of the task create_task made: to its
\* await of the first message.
EngineStart(w) ==
    LET t == EngTask(w)  rec == task[t]
        w1 == Call(World(0), "_handle_live_session", rec.sid)
    IN
    /\ rec.pc = "new"
    /\ CommitTask(IF rec.sid \notin w1.active
                  THEN EngineFinally(w1, rec)
                  ELSE [wd |-> w1,
                        rec |-> [rec EXCEPT
                                   !.pc = "recv",
                                   !.lsess = w1.sess[rec.sid].live_session]],
                  t)
    /\ UNCHANGED fragLog

\* The number the next fragment of session s carries as its text.
NextText(s) == Len(fragLog[s]) + 1

\* The fragments given to _handle_transcript for a registered session.
Logged(s, role, is_final) ==
    IF s \in active
    THEN [fragLog EXCEPT ![s] = Append(@, [role |-> role,
                                            text |-> NextText(s),
                                            is_final |-> is_final])]
    ELSE fragLog

\* _process_live_message with TALKING assigned before the audio_chunk send.
ProcessLiveMessageTalkingFirst(wd, rec, m, text, lossy) ==
    LET s  == rec.sid
        w1 == Call(wd, "_process_live_message", s)
    IN  IF s \notin w1.active
        THEN [wd |-> w1, rec |-> At(rec, "recv")]
        ELSE IF m \in {"audio", "bytes"}
        THEN LET r == send_json(SetState(w1, s, TALKING),
                                w1.sess[s].websocket, "audio_chunk",
                                FALSE, lossy)
             IN  [wd |-> r.wd,
                  rec |-> At(rec, IF r.ok THEN "audio_sent" ELSE "recv")]
        ELSE IF m \in {"text", "str"}
        THEN LET r == _handle_transcript(w1, s, "assistant", text, TRUE,
                                         lossy)
             IN  [wd |-> r.wd,
                  rec |-> [rec EXCEPT
                             !.pc = IF r.susp THEN "tr_sent" ELSE "recv",
                             !.role = "assistant", !.final = TRUE]]
        ELSE [wd |-> w1, rec |-> At(rec, "recv")]

\* _process_live_message, to its first await.
_process_live_message(wd, rec, m, text, lossy) ==
    LET s  == rec.sid
        w1 == Call(wd, "_process_live_message", s)
    IN  IF s \notin w1.active
        THEN [wd |-> w1, rec |-> At(rec, "recv")]
        ELSE IF m \in {"audio", "bytes"}
        THEN LET r == send_json(w1, w1.sess[s].websocket, "audio_chunk",
                                FALSE, lossy)
             IN  [wd |-> r.wd,
                  rec |-> At(rec, IF r.ok THEN "audio_sent" ELSE "recv")]
        ELSE IF m \in {"text", "str"}
        THEN LET r == _handle_transcript(w1, s, "assistant", text, TRUE,
                                         lossy)
             IN  [wd |-> r.wd,
                  rec |-> [rec EXCEPT
                             !.pc = IF r.susp THEN "tr_sent" ELSE "recv",
                             !.role = "assistant", !.final = TRUE]]
        ELSE [wd |-> w1, rec |-> At(rec, "recv")]

\* live_session.receive() yields a message.
EngineMessage(w, m, now, lossy) ==
    LET t == EngTask(w)  rec == task[t]  s == rec.sid IN
    /\ rec.pc = "recv"
    /\ ~conn[rec.lsess].exited
    /\ m \in {"text", "str"} => Len(fragLog[s]) < MaxFragments
    /\ CommitTask(_process_live_message(World(now), rec, m, NextText(s),
                                        lossy), t)
    /\ fragLog' = IF m \in {"text", "str"} THEN Logged(s, "assistant", TRUE)
                                           ELSE fragLog

\* _process_live_message resumes from the audio_chunk send: TALKING.
EngineAudioSent(w, lossy) ==
    LET t == EngTask(w)  rec == task[t] IN
    /\ rec.pc = "audio_sent"
    /\ CommitTask([wd |-> _update_session_state(World(0), rec.sid,
                                                TALKING, lossy).wd,
                   rec |-> At(rec, "recv")], t)
    /\ UNCHANGED fragLog

\* _handle_transcript resumes from the transcript send.
TranscriptSent(t, lossy) ==
    LET rec == task[t] IN
    /\ rec.pc = "tr_sent"
    /\ CommitTask([wd |-> _handle_transcript_state(World(0), rec.sid,
                                                   rec.role, rec.final,
                                                   lossy),
                   rec |-> IF t = UnitTask THEN IdleTask
                                           ELSE At(rec, "recv")],
                  t)
    /\ UNCHANGED fragLog

\* live_session.receive() is exhausted: the Live API stream has ended.
EngineExhausted(w) ==
    LET t == EngTask(w)  rec == task[t] IN
    /\ rec.pc = "recv"
    /\ CommitTask(EngineFinally(World(0), rec), t)
    /\ UNCHANGED fragLog

\* live_session.receive() raises: the except clause of
\* _handle_live_session, to the await in _update_session_state.
EngineError(w, lossy) ==
    LET t == EngTask(w)
        rec == [task[t] EXCEPT !.raised = task[t].sid \in active]
        r == _update_session_state(World(0), rec.sid, ERROR, lossy)
    IN
    /\ rec.pc = "recv"
    /\ CommitTask(IF r.susp THEN [wd |-> r.wd, rec |-> At(rec, "err_sent")]
                            ELSE EngineFinally(r.wd, rec), t)
    /\ UNCHANGED fragLog

\* The except clause is done: the finally.
EngineErrSent(w) ==
    LET t == EngTask(w)  rec == task[t] IN
    /\ rec.pc = "err_sent"
    /\ CommitTask(EngineFinally(World(0), rec), t)
    /\ UNCHANGED fragLog

----------------------------------------------------------------------------
\* DELETE /voice/session/{s} without the comparison of the owner.
HttpEndAnyUser(u, s, now) ==
    LET rec == [task[HttpTask] EXCEPT !.sid = s, !.tok = u]
        w1 == Call(World(now), "get_session_info", s)
        r  == IF s \in w1.active
              THEN EndFinally(w1, rec)
              ELSE [wd |-> w1, rec |-> At(rec, "done")]
    IN
    /\ rec.pc = "idle"
    /\ CommitTask(Answered(r), HttpTask)
    /\ UNCHANGED fragLog

\* DELETE /voice/session/{s} by user u: 404, 403, or end_voice_session.
\* A request that has been answered leaves its task free for the next.
http_end_voice_session(u, s, now) ==
    LET rec == [task[HttpTask] EXCEPT !.sid = s, !.tok = u]
        w1 == Call(World(now), "get_session_info", s)
        r  == IF s \notin w1.active
              THEN [wd |-> w1, rec |-> At(rec, "done")]
              ELSE IF w1.sess[s].user_id # u
              THEN [wd |-> Call(w1, "HTTPException_403", s),
                    rec |-> At(rec, "done")]
              ELSE EndFinally(w1, rec)
    IN
    /\ rec.pc = "idle"
    /\ CommitTask(Answered(r), HttpTask)
    /\ UNCHANGED fragLog

\* get_session_info: the VoiceSession, or None (NoSession).
get_session_info(wd, s) ==
    IF s \in wd.active THEN wd.sess[s] ELSE NoSession

\* GET /voice/session/{s} by user u: 404, 403, or the session's fields.
get_voice_session(u, s) ==
    LET voice_session == get_session_info(World(0), s) IN
    /\ reply' =
          [op |-> "get", user |-> u, sid |-> s,
           status |-> IF voice_session = NoSession THEN 404
                      ELSE IF voice_session.user_id # u THEN 403
                      ELSE 200,
           body |-> IF voice_session = NoSession \/ voice_session.user_id # u
                    THEN {}
                    ELSE {[session_id |-> s,
                           state |-> voice_session.state,
                           connected_at |-> voice_session.connected_at,
                           total_duration_seconds |->
                               voice_session.total_duration_seconds,
                           transcript_length |->
                               Len(voice_session.transcript)]}]
    /\ step' = {}
    /\ UNCHANGED <<active, sess, nextId, task, wsock, conn, delFailed, seen,
                   fragLog>>

\* GET /voice/sessions by user u: the sessions of active_sessions whose
\* user_id is u.
get_active_sessions_info(u) ==
    /\ reply' =
          [op |-> "list", user |-> u, sid |-> 0, status |-> 200,
           body |-> {[session_id |-> s,
                      state |-> sess[s].state,
                      connected_at |-> sess[s].connected_at] :
                         s \in {x \in active : sess[x].user_id = u}}]
    /\ step' = {}
    /\ UNCHANGED <<active, sess, nextId, task, wsock, conn, delFailed, seen,
                   fragLog>>

\* A direct call of _handle_transcript(session_id, role, text, is_final).
CallHandleTranscript(s, role, is_final, now, lossy) ==
    LET rec == task[UnitTask]
        r == _handle_transcript(World(now), s, role, NextText(s), is_final,
                                lossy)
    IN
    /\ rec.pc = "idle"
    /\ Len(fragLog[s]) < MaxFragments
    /\ CommitTask([wd |-> r.wd,
                   rec |-> IF r.susp
                           THEN [rec EXCEPT !.pc = "tr_sent", !.sid = s,
                                            !.role = role,
                                            !.final = is_final]
                           ELSE IdleTask], UnitTask)
    /\ fragLog' = Logged(s, role, is_final)

----------------------------------------------------------------------------
\* voice_websocket_endpoint of the connections W, up to its message loop.
AttachSteps(W) ==
    \/ \E w \in W : HandlerRejClose(w)
    \/ \E w \in W, lossy \in BOOLEAN :
          \/ HandlerAccepted(w, lossy)
          \/ HandlerVerified(w, lossy)
    \/ \E w \in W, now \in Readings :
          \/ HandlerFailClose(w, now)
          \/ HandlerFailReturn(w, now)
          \/ \E lossy \in BOOLEAN : HandlerErrSent(w, now, lossy)
          \/ \E ok, lossy \in BOOLEAN :
                \/ HandlerConnected(w, ok, now, lossy)
                \/ HandlerGreeted(w, ok, now, lossy)

\* The message loop of the connections W, for the client messages M.
LoopSteps(W, M) ==
    \/ \E w \in W : ClientDisconnect(w)
    \/ \E w \in W, now \in Readings : HandlerDisconnected(w, now)
    \/ \E w \in W, ok, lossy \in BOOLEAN : HandlerAudioSent(w, ok, lossy)
    \/ \E w \in W, m \in M, now \in Readings, lossy \in BOOLEAN :
          HandlerMessage(w, m, now, lossy)

\* The engine listen tasks of the connections W: start and termination.
EngineSteps(W) ==
    \/ \E w \in W : EngineStart(w)
    \/ \E w \in W : EngineExhausted(w)
    \/ \E w \in W : EngineErrSent(w)
    \/ \E w \in W, lossy \in BOOLEAN : EngineError(w, lossy)

\* The engine listen tasks of the connections W: the messages they read.
EngineMessages(W) ==
    \/ \E w \in W, lossy \in BOOLEAN : EngineAudioSent(w, lossy)
    \/ \E w \in W, m \in LiveMessages, now \in Readings, lossy \in BOOLEAN :
          EngineMessage(w, m, now, lossy)
    \/ \E w \in W, lossy \in BOOLEAN : TranscriptSent(EngTask(w), lossy)

\* The resumptions inside end_voice_session and _cleanup_session, of
\* whichever task called them.
TeardownSteps ==
    \E t \in Tasks, now \in Readings, lossy \in BOOLEAN :
        \/ EndAexitResumed(t, now, lossy)
        \/ CleanupResumed(t, now, lossy)

\* One session of user u1, one websocket connection, any token, any client
\* message, DELETE requests of both users.
Next ==
    \/ nextId = 0 /\ create_voice_session("u1")
    \/ \E s \in Sids, tok \in Tokens : AttachBegin(1, s, tok)
    \/ AttachSteps({1})
    \/ LoopSteps({1}, ClientMessages)
    \/ EngineSteps({1})
    \/ EngineMessages({1})
    \/ TeardownSteps
    \/ \E u \in Users, s \in Sids, now \in Readings :
          http_end_voice_session(u, s, now)

Spec == Init /\ [][Next]_vars

\* One session of user u1 and two websocket connections of its owner,
\* whose clients stay and send nothing; the Live API sends nothing.
AttachNext ==
    \/ nextId = 0 /\ create_voice_session("u1")
    \/ \E w \in Wss : AttachBegin(w, 1, "u1")
    \/ AttachSteps(Wss)
    \/ \E w \in Wss, now \in Readings : HandlerDisconnected(w, now)
    \/ EngineSteps(Wss)
    \/ TeardownSteps

AttachSpec == Init /\ [][AttachNext]_vars

\* The event loop runs the handler of websocket w whenever it can go on:
\* its awaits of the Live API and of the websocket return or raise, and a
\* receive_json on a websocket that is closed raises.  The client stays,
\* and the Live API accepts the connection.
HandlerRun(w) ==
    \/ HandlerRejClose(w)
    \/ HandlerAccepted(w, FALSE)
    \/ HandlerVerified(w, FALSE)
    \/ \E now \in Readings :
          \/ HandlerConnected(w, TRUE, now, FALSE)
          \/ \E ok \in BOOLEAN : HandlerGreeted(w, ok, now, FALSE)
          \/ HandlerDisconnected(w, now)
          \/ EndAexitResumed(WsTask(w), now, FALSE)
          \/ CleanupResumed(WsTask(w), now, FALSE)

\* The event loop runs the listen task of websocket w whenever it can go
\* on; live_session.receive() ends once the connection it reads has been
\* closed.
EngineRun(w) ==
    \/ EngineStart(w)
    \/ \E now \in Readings : CleanupResumed(EngTask(w), now, FALSE)
    \/ /\ task[EngTask(w)].pc = "recv"
       /\ conn[task[EngTask(w)].lsess].exited
       /\ EngineExhausted(w)

\* One session of user u1 and two websocket connections of its owner, the
\* second made while the first handler is in its message loop; the clients
\* stay and send nothing, and the stream of an open Live API connection may
\* end at any time or never.
RaceNext ==
    \/ nextId = 0 /\ create_voice_session("u1")
    \/ AttachBegin(1, 1, "u1")
    \/ task[WsTask(1)].pc = "recv" /\ AttachBegin(2, 1, "u1")
    \/ \E w \in Wss : HandlerRun(w)
    \/ \E w \in Wss : EngineRun(w)
    \/ \E w \in Wss : EngineExhausted(w)

\* Every handler and every listen task is scheduled fairly.
RaceSpec ==
    /\ Init /\ [][RaceNext]_vars
    /\ \A w \in Wss : WF_vars(HandlerRun(w)) /\ WF_vars(EngineRun(w))

\* The messages of a client that only set is_speaking.
FlagMessages == {"start_speaking", "stop_speaking", "audio_end"}

\* Session w attached over websocket w, for both w: the handler in its
\* message loop and the listen task reading.
TwinReady ==
    \A w \in Wss :
        /\ task[WsTask(w)].sid = w /\ task[EngTask(w)].sid = w
        /\ task[WsTask(w)].pc \in {"recv", "audio_send"}
        /\ task[EngTask(w)].pc \in {"recv", "audio_sent", "tr_sent"}

\* Both executions have taken the same steps on the same inputs.
TwinSynced ==
    /\ TwinReady
    /\ task[WsTask(1)].pc = task[WsTask(2)].pc
    /\ task[EngTask(1)].pc = task[EngTask(2)].pc

\* The first execution takes a step: an audio_stream chunk or its send
\* returning, a Live API message or its send returning.
TwinLead ==
    /\ TwinSynced
    /\ \/ \E now \in Readings : HandlerMessage(1, "audio_stream", now, FALSE)
       \/ HandlerAudioSent(1, TRUE, FALSE)
       \/ \E m \in {"audio", "text"}, now \in Readings :
             EngineMessage(1, m, now, FALSE)
       \/ EngineAudioSent(1, FALSE)
       \/ TranscriptSent(EngTask(1), FALSE)

\* The second execution takes the same step on the same input.
TwinFollow ==
    /\ TwinReady
    /\ \/ /\ task[WsTask(1)].pc = "audio_send" /\ task[WsTask(2)].pc = "recv"
          /\ \E now \in Readings :
                HandlerMessage(2, "audio_stream", now, FALSE)
       \/ /\ task[WsTask(1)].pc = "recv" /\ task[WsTask(2)].pc = "audio_send"
          /\ HandlerAudioSent(2, TRUE, FALSE)
       \/ /\ task[EngTask(1)].pc = "audio_sent" /\ task[EngTask(2)].pc = "recv"
          /\ \E now \in Readings : EngineMessage(2, "audio", now, FALSE)
       \/ /\ task[EngTask(1)].pc = "tr_sent" /\ task[EngTask(2)].pc = "recv"
          /\ \E now \in Readings : EngineMessage(2, "text", now, FALSE)
       \/ /\ task[EngTask(1)].pc = "recv"
          /\ \/ EngineAudioSent(2, FALSE)
             \/ TranscriptSent(EngTask(2), FALSE)

\* Two executions side by side: user u1 has session w attached over
\* websocket w, for both w; the clients stay; both get the same audio_stream
\* chunks and the same Live API messages, step for step, and between those
\* steps each client sends the messages that only set is_speaking as it
\* likes.
TwinNext ==
    \/ nextId < 2 /\ create_voice_session("u1")
    \/ \E w \in Wss : AttachBegin(w, w, "u1")
    \/ \E w \in Wss :
          \/ HandlerAccepted(w, FALSE)
          \/ HandlerVerified(w, FALSE)
          \/ EngineStart(w)
    \/ \E w \in Wss, now \in Readings :
          \/ HandlerConnected(w, TRUE, now, FALSE)
          \/ HandlerGreeted(w, TRUE, now, FALSE)
    \/ TwinLead
    \/ TwinFollow
    \/ \E w \in Wss, m \in FlagMessages, now \in Readings :
          TwinSynced /\ HandlerMessage(w, m, now, FALSE)

TwinSpec == Init /\ [][TwinNext]_vars

----------------------------------------------------------------------------
\* The owner of session s in the two-user runs: u1 has 1, u2 has 2.
OwnerOf(s) == IF s = 1 THEN "u1" ELSE "u2"

\* The steps taken for session a: an attach that names it over one of the
\* websockets W, the steps of a websocket handler or listen task bound to
\* it, the resumptions of its teardown, and a DELETE request for it by one
\* of the users U.  M are the client's messages; fails tells whether the
\* Live API stream may raise, R the readings of the clock.  Clients stay
\* and sends succeed.
StepsOf(a, W, M, fails, U, R) ==
    \/ \E w \in W : AttachBegin(w, a, OwnerOf(w))
    \/ \E w \in Wss :
          /\ task[WsTask(w)].sid = a
          /\ \/ HandlerRejClose(w)
             \/ HandlerAccepted(w, FALSE)
             \/ HandlerVerified(w, FALSE)
             \/ HandlerAudioSent(w, TRUE, FALSE)
             \/ \E now \in R :
                   \/ HandlerConnected(w, TRUE, now, FALSE)
                   \/ HandlerGreeted(w, TRUE, now, FALSE)
                   \/ \E m \in M : HandlerMessage(w, m, now, FALSE)
    \/ \E w \in Wss :
          /\ task[EngTask(w)].sid = a
          /\ \/ EngineStart(w)
             \/ fails /\ EngineError(w, FALSE)
             \/ EngineErrSent(w)
             \/ TranscriptSent(EngTask(w), FALSE)
             \/ \E now \in R : EngineMessage(w, "text", now, FALSE)
    \/ \E t \in Tasks, now \in R :
          /\ task[t].sid = a
          /\ \/ EndAexitResumed(t, now, FALSE)
             \/ CleanupResumed(t, now, FALSE)
    \/ \E u \in U, now \in R : http_end_voice_session(u, a, now)

\* Any step taken for session a.
StepFor(a) ==
    StepsOf(a, Wss, {"audio_stream", "end_session"}, TRUE, Users, Readings)

\* Two sessions side by side: session 1 of u1 and session 2 of u2.  The
\* client of u1 attaches to either session, sends audio and end_session,
\* its Live API stream sends transcripts and may fail, and either user
\* sends DELETE for session 1; the client of u2 attaches to session 2 and
\* sends audio, and its Live API stream sends transcripts.  Any
\* interleaving; the clock stands still.
DuoNext ==
    \/ nextId = 0 /\ create_voice_session("u1")
    \/ nextId = 1 /\ create_voice_session("u2")
    \/ nextId = 2 /\ StepsOf(1, {1}, {"audio_stream", "end_session"}, TRUE,
                             Users, {LastStamp})
    \/ nextId = 2 /\ StepsOf(2, Wss, {"audio_stream"}, FALSE, {},
                             {LastStamp})

DuoSpec == Init /\ [][DuoNext]_vars

----------------------------------------------------------------------------
\* The event loop runs the handler of websocket w whenever it can go on:
\* the steps of the attach, the awaits that return, receive_json raising
\* once the client has gone or the socket is closed.
TearHandlerRun(w) ==
    \/ HandlerAccepted(w, FALSE)
    \/ HandlerVerified(w, FALSE)
    \/ HandlerConnected(w, TRUE, LastStamp, FALSE)
    \/ HandlerDisconnected(w, LastStamp)
    \/ \E lossy \in BOOLEAN :
          \/ HandlerGreeted(w, TRUE, LastStamp, lossy)
          \/ EndAexitResumed(WsTask(w), LastStamp, lossy)
          \/ CleanupResumed(WsTask(w), LastStamp, lossy)

\* The same for the listen task of websocket w; live_session.receive()
\* ends once the connection it reads has been closed.
TearEngineRun(w) ==
    \/ EngineStart(w)
    \/ EngineErrSent(w)
    \/ \E lossy \in BOOLEAN : TranscriptSent(EngTask(w), lossy)
    \/ \E lossy \in BOOLEAN : CleanupResumed(EngTask(w), LastStamp, lossy)
    \/ /\ task[EngTask(w)].pc = "recv"
       /\ conn[task[EngTask(w)].lsess].exited
       /\ EngineExhausted(w)

\* One session of user u1 attached over websocket 1.  Once the listen task
\* exists the client may drop, send ping or end_session, and the Live API
\* stream may send a transcript, end or raise, in any order, or never.
TearNext ==
    \/ nextId = 0 /\ create_voice_session("u1")
    \/ AttachBegin(1, 1, "u1")
    \/ TearHandlerRun(1)
    \/ TearEngineRun(1)
    \/ task[EngTask(1)].pc # "idle" /\ ClientDisconnect(1)
    \/ \E m \in {"ping", "end_session"}, lossy \in BOOLEAN :
          HandlerMessage(1, m, LastStamp, lossy)
    \/ \E lossy \in BOOLEAN : EngineMessage(1, "text", LastStamp, lossy)
    \/ EngineExhausted(1)
    \/ \E lossy \in BOOLEAN : EngineError(1, lossy)

\* The handler and the listen task are scheduled fairly.
TearSpec ==
    /\ Init /\ [][TearNext]_vars
    /\ WF_vars(TearHandlerRun(1)) /\ WF_vars(TearEngineRun(1))

\* One session of user u1 and two websocket connections of its owner, the
\* second made while the first handler is in its message loop.  Once both
\* listen tasks exist the clients send audio_stream and audio_end and the
\* Live API streams send audio and text, end or raise, in any order.  The
\* clients stay and the clock stands still.
GoneNext ==
    \/ nextId = 0 /\ create_voice_session("u1")
    \/ AttachBegin(1, 1, "u1")
    \/ task[WsTask(1)].pc = "recv" /\ AttachBegin(2, 1, "u1")
    \/ \E w \in Wss :
          \/ HandlerRejClose(w)
          \/ HandlerAccepted(w, FALSE)
          \/ HandlerVerified(w, FALSE)
          \/ HandlerConnected(w, TRUE, LastStamp, FALSE)
          \/ HandlerGreeted(w, TRUE, LastStamp, FALSE)
          \/ HandlerDisconnected(w, LastStamp)
          \/ EndAexitResumed(WsTask(w), LastStamp, FALSE)
    \/ \E w \in Wss : TearEngineRun(w)
    \/ \E w \in Wss : HandlerAudioSent(w, TRUE, FALSE)
    \/ \E w \in Wss : EngineAudioSent(w, FALSE)
    \/ /\ task[EngTask(2)].pc # "idle"
       /\ \E w \in Wss :
             \/ \E m \in {"audio_stream", "audio_end"} :
                   HandlerMessage(w, m, LastStamp, FALSE)
             \/ \E m \in {"audio", "text"} :
                   EngineMessage(w, m, LastStamp, FALSE)
             \/ EngineExhausted(w)
             \/ EngineError(w, FALSE)

GoneSpec == Init /\ [][GoneNext]_vars

----------------------------------------------------------------------------
\* One session of user u1 attached by its owner over one websocket, with
\* direct calls of _handle_transcript in place of the messages of the Live
\* API.
UnitNext ==
    \/ nextId = 0 /\ create_voice_session("u1")
    \/ AttachBegin(1, 1, "u1")
    \/ AttachSteps({1})
    \/ \E now \in Readings : HandlerDisconnected(1, now)
    \/ ClientDisconnect(1)
    \/ EngineSteps({1})
    \/ TeardownSteps
    \/ \E lossy \in BOOLEAN : TranscriptSent(UnitTask, lossy)
    \/ \E role \in {"user", "assistant"}, is_final \in BOOLEAN,
          now \in Readings, lossy \in BOOLEAN :
          CallHandleTranscript(1, role, is_final, now, lossy)

UnitSpec == Init /\ [][UnitNext]_vars

\* Two sessions, of u1 and of u2.  The first is attached by its owner,
\* whose client stays, asks for the transcript and ends the session; its
\* Live API stream ends or fails.  The second is never attached.
\* _handle_transcript is called directly for either.
PairNext ==
    \/ nextId = 0 /\ create_voice_session("u1")
    \/ nextId = 1 /\ create_voice_session("u2")
    \/ AttachBegin(1, 1, "u1")
    \/ AttachSteps({1})
    \/ \E now \in Readings : HandlerDisconnected(1, now)
    \/ \E m \in {"get_transcript", "end_session"}, now \in Readings,
          lossy \in BOOLEAN :
          HandlerMessage(1, m, now, lossy)
    \/ EngineSteps({1})
    \/ TeardownSteps
    \/ \E lossy \in BOOLEAN : TranscriptSent(UnitTask, lossy)
    \/ \E s \in Sids, is_final \in BOOLEAN, now \in Readings,
          lossy \in BOOLEAN :
          CallHandleTranscript(s, "user", is_final, now, lossy)

PairSpec == Init /\ [][PairNext]_vars

\* Two sessions of any owners, the HTTP routes called by both users, and
\* one websocket of u1 to the first session, whose client stays and sends
\* nothing and whose Live API stream ends or fails.
HttpNext ==
    \/ \E u \in Users : create_voice_session(u)
    \/ \E u \in Users, s \in Sids : get_voice_session(u, s)
    \/ \E u \in Users : get_active_sessions_info(u)
    \/ \E u \in Users, s \in Sids, now \in Readings :
          http_end_voice_session(u, s, now)
    \/ AttachBegin(1, 1, "u1")
    \/ AttachSteps({1})
    \/ \E now \in Readings : HandlerDisconnected(1, now)
    \/ EngineSteps({1})
    \/ TeardownSteps

HttpSpec == Init /\ [][HttpNext]_vars

----------------------------------------------------------------------------
\* C1: once a session's state is ENDED or ERROR, no step of any task
\* changes that state again.
C1_TerminalStateIsFinal ==
    [][\A s \in Sids :
          sess[s].state \in Terminal => sess'[s].state = sess[s].state]_vars

\* C2: ENDED and ERROR are mutually exclusive: no session holds ERROR at
\* one time and ENDED at another.
C2_EndedErrorExclusive ==
    \A s \in Sids : ~({ENDED, ERROR} \subseteq seen[s])

\* C3: while the engine task's finally is suspended in _cleanup_session at
\* websocket.close(), teardown from the client side adds no second set of
\* side effects: the websocket's close is not invoked again, the engine
\* connection's close is not invoked a second time, and no deletion of the
\* registry entry fails.
C3_OneSetOfTeardownEffects ==
    [][\A w \in Wss :
          task[EngTask(w)].pc = "cs_close" =>
              /\ wsock'[w].closeCalls = wsock[w].closeCalls
              /\ conn'[w].closeCalls # conn[w].closeCalls
                     => conn'[w].closeCalls <= 1
              /\ delFailed' = delFailed]_vars

\* C4: a call of end_voice_session on a session whose state is already
\* ENDED or ERROR leaves state, ended_at and total_duration_seconds as they
\* were.
C4_EndOfTerminalIsNoOp ==
    [][\A s \in Sids :
          (sess[s].state \in Terminal
              /\ <<"end_voice_session", s, FALSE>> \in step') =>
              /\ sess'[s].state = sess[s].state
              /\ sess'[s].ended_at = sess[s].ended_at
              /\ sess'[s].total_duration_seconds =
                     sess[s].total_duration_seconds]_vars

\* C6: whenever an entry is removed from active_sessions, the session's
\* state is ENDED or ERROR and its ended_at is set.
C6_RemovedIsFinalized ==
    [][\A s \in Sids :
          (s \in active /\ s \notin active') =>
              /\ sess'[s].state \in Terminal
              /\ sess'[s].ended_at # 0]_vars

\* C7: when the server closes a websocket whose client has not gone, the
\* client has been sent session_ended or error on it before.
C7_NotifiedBeforeClose ==
    [][\A w \in Wss :
          (~wsock[w].closed /\ wsock'[w].closed /\ ~wsock[w].gone) =>
              wsock[w].got \cap {"session_ended", "error"} # {}]_vars

\* C8: once the engine open of an authorized attach has failed, the state
\* has become ERROR, no engine listen task exists for that attach, its
\* handler is not in the message loop, and connected_at, unset then, stays
\* unset.
C8_FailedOpenLeavesError ==
    [][\A w \in Wss :
          LET t == WsTask(w)
              s == task'[t].sid
          IN  task'[t].openFailed =>
                  /\ ERROR \in seen'[s]
                  /\ task'[EngTask(w)].pc = "idle"
                  /\ task'[t].pc \notin {"greet", "recv", "audio_send"}
                  /\ (task[t].openFailed /\ sess[s].connected_at = 0)
                         => sess'[s].connected_at = 0]_vars

\* C9: once the handler of a connected session has seen its client drop
\* and has finished, the session is ENDED, ended_at is set,
\* total_duration_seconds is ended_at minus connected_at in whole seconds,
\* and the entry is gone from active_sessions.
C9_DropEndsSession ==
    \A w \in Wss :
        LET t == WsTask(w)
            s == task[t].sid
        IN  (task[t].sawDrop /\ task[t].pc = "done") =>
                /\ sess[s].state = ENDED
                /\ sess[s].ended_at # 0
                /\ sess[s].total_duration_seconds =
                       (sess[s].ended_at - sess[s].connected_at)
                           \div TicksPerSecond
                /\ s \notin active

\* C5: a step of the handler of an attach that fails authorization (no
\* token, a token that does not verify, an unknown session, a uid other
\* than the owner's) changes no session, neither the registry nor a Live
\* API connection, and calls neither start_live_conversation nor
\* end_voice_session, and the session check answers every user as before;
\* when the handler is done the websocket has been closed with code 1008,
\* unless the client had gone before.
C5_RejectedAttachMutatesNothing ==
    [][\A w \in Wss :
          LET t == WsTask(w) IN
          (/\ task'[t] # task[t]
           /\ task'[t].pc # "idle"
           /\ task'[t].unauth \/ task'[t].tok \notin Users) =>
              /\ sess' = sess
              /\ active' = active
              /\ conn' = conn
              /\ \A s \in Sids :
                    /\ <<"start_live_conversation", s, FALSE>> \notin step'
                    /\ <<"end_voice_session", s, FALSE>> \notin step'
              /\ \A s \in Sids, u \in Users :
                    session_verified(World(0), s, u)
                        <=> (s \in active' /\ sess'[s].user_id = u)
              /\ task'[t].pc = "done" =>
                    \/ wsock'[w].gone
                    \/ wsock'[w].closed /\ wsock'[w].code = 1008]_vars

\* C5, reached: the attach of a user other than the owner to a registered
\* session has been rejected with code 1008, the session still CONNECTING.
C5_RejectedAttachMutatesNothing_witness ==
    \E w \in Wss :
        LET t == WsTask(w)
            s == task[t].sid
        IN  /\ task[t].pc = "done" /\ task[t].unauth
            /\ task[t].tok \in Users
            /\ s \in active /\ sess[s].user_id # task[t].tok
            /\ sess[s].state = CONNECTING
            /\ ~wsock[w].gone /\ wsock[w].closed /\ wsock[w].code = 1008
            /\ "error" \in wsock[w].got

\* C10: the entries of VoiceSession.transcript and of the session_data
\* transcript are, in order, the fragments handled with is_final = true;
\* a fragment handled with is_final = false adds no entry and, the
\* websocket being open, is sent to the client with is_final false.
C10_OnlyFinalFragmentsStored ==
    /\ [](\A s \in Sids :
            LET finals == SelectSeq(fragLog[s], LAMBDA f : f.is_final)
                Same(tr) ==
                    /\ Len(tr) = Len(finals)
                    /\ \A i \in 1..Len(tr) :
                          /\ tr[i].role = finals[i].role
                          /\ tr[i].text = finals[i].text
            IN  Same(sess[s].transcript) /\ Same(sess[s].sd_transcript))
    /\ [][\A s \in Sids :
            (/\ Len(fragLog'[s]) = Len(fragLog[s]) + 1
             /\ ~fragLog'[s][Len(fragLog'[s])].is_final) =>
                LET w == sess[s].websocket IN
                /\ sess'[s].transcript = sess[s].transcript
                /\ sess'[s].sd_transcript = sess[s].sd_transcript
                /\ <<"transcript", w, TRUE>> \notin step'
                /\ (w # 0 /\ ~wsock[w].closed /\ ~wsock[w].gone) =>
                       <<"transcript", w, FALSE>> \in step']_vars

\* C10, reached: after a final fragment was stored, a fragment with
\* is_final = false has just been sent to the client and stored nowhere.
C10_OnlyFinalFragmentsStored_witness ==
    \E s \in Sids :
        /\ Len(fragLog[s]) = 2
        /\ fragLog[s][1].is_final /\ ~fragLog[s][2].is_final
        /\ Len(sess[s].transcript) = 1
        /\ Len(sess[s].sd_transcript) = 1
        /\ <<"transcript", sess[s].websocket, FALSE>> \in step

\* C11: the transcript is append-only.  A step that handles a final
\* fragment for a registered session lengthens that session's transcript
\* by one; every other step, and that step for every other session, leaves
\* the length as it is; no step changes an entry already stored.
C11_TranscriptAppendOnly ==
    [][\A s \in Sids :
          LET handled ==
                  /\ Len(fragLog'[s]) = Len(fragLog[s]) + 1
                  /\ fragLog'[s][Len(fragLog'[s])].is_final
              Grown(old, new) ==
                  /\ Len(new) = Len(old) + (IF handled THEN 1 ELSE 0)
                  /\ \A i \in 1..Len(old) : new[i] = old[i]
          IN  /\ Grown(sess[s].transcript, sess'[s].transcript)
              /\ Grown(sess[s].sd_transcript, sess'[s].sd_transcript)]_vars

\* C11, reached: two sessions hold entries, those of the first being two
\* and still there after its teardown.
C11_TranscriptAppendOnly_witness ==
    /\ 1 \notin active /\ sess[1].state = ENDED
    /\ Len(sess[1].transcript) = 2
    /\ Len(sess[2].transcript) >= 1
    /\ sess[1].transcript[1].timestamp < sess[1].transcript[2].timestamp

\* C12: connected_at is assigned at most once: once set, no step changes
\* its value.
C12_ConnectedAtSetOnce ==
    [][\A s \in Sids :
          sess[s].connected_at # 0 =>
              sess'[s].connected_at = sess[s].connected_at]_vars

\* C13: ended_at is assigned at most once: once set, no step, of a second
\* end_voice_session in particular, changes its value or that of
\* total_duration_seconds.
C13_EndedAtSetOnce ==
    [][\A s \in Sids :
          sess[s].ended_at # 0 =>
              /\ sess'[s].ended_at = sess[s].ended_at
              /\ sess'[s].total_duration_seconds =
                     sess[s].total_duration_seconds]_vars

\* C14: from create_voice_session until an authorized attach goes on to
\* open the engine connection or end_voice_session ends the session, the
\* session is registered, CONNECTING, with connected_at unset and no
\* websocket, Live session or Live connection stored; its id was not in
\* use before; GET /voice/session by its owner answers with that state and
\* changes nothing.
C14_PreAttachSession ==
    /\ [](\A s \in Sids :
            LET Attached ==
                    \E w \in Wss :
                        /\ task[WsTask(w)].sid = s
                        /\ ~task[WsTask(w)].unauth
                        /\ task[WsTask(w)].pc \notin
                               {"idle", "accepted", "verify"}
            IN  (s <= nextId /\ sess[s].ended_at = 0 /\ ~Attached) =>
                    /\ s \in active
                    /\ sess[s].state = CONNECTING
                    /\ sess[s].connected_at = 0
                    /\ sess[s].websocket = 0
                    /\ sess[s].live_session = 0
                    /\ sess[s].live_connection = 0)
    /\ [][LET s == reply'.sid
              Attached ==
                  \E w \in Wss :
                      /\ task[WsTask(w)].sid = s
                      /\ ~task[WsTask(w)].unauth
                      /\ task[WsTask(w)].pc \notin
                             {"idle", "accepted", "verify"}
          IN
          /\ nextId' # nextId =>
                /\ nextId' \notin active /\ sess[nextId'] = NoSession
                /\ active' = active \cup {nextId'}
          /\ (/\ reply' # reply /\ reply'.op = "get"
              /\ s \in Sids /\ s <= nextId
              /\ sess[s].ended_at = 0 /\ ~Attached
              /\ reply'.user = sess[s].user_id) =>
                /\ reply'.status = 200
                /\ \A e \in reply'.body :
                      /\ e.session_id = s
                      /\ e.state = CONNECTING /\ e.connected_at = 0
                /\ reply'.body # {}
                /\ UNCHANGED <<active, sess, nextId, task, wsock, conn>>
         ]_vars

\* C14 as stated: from create_voice_session until an authorized attach has
\* opened the engine connection, the session is registered, CONNECTING,
\* with connected_at unset and no handles stored.
C14_PreAttachSession_asStated ==
    \A s \in Sids :
        (s <= nextId /\ ~\E w \in Wss : conn[w].opened /\
                                         task[WsTask(w)].sid = s) =>
            /\ s \in active
            /\ sess[s].state = CONNECTING
            /\ sess[s].connected_at = 0
            /\ sess[s].websocket = 0
            /\ sess[s].live_session = 0
            /\ sess[s].live_connection = 0

\* C14, reached: the owner of the second session has read it over HTTP
\* before any attach to it, after an attach to the first session has
\* connected.
C14_PreAttachSession_witness ==
    /\ reply.op = "get" /\ reply.sid = 2 /\ reply.status = 200
    /\ \E e \in reply.body : e.state = CONNECTING
    /\ 2 \in active /\ sess[2].state = CONNECTING
    /\ sess[1].connected_at # 0

\* C15: an attach whose session check finds the session registered in a
\* state other than CONNECTING is rejected: the handler goes on to close
\* its websocket without calling start_live_conversation, and no step of
\* it changes the session's state, timestamps or handles.
C15_AttachOnlyWhenConnecting ==
    [][\A w \in Wss :
          LET t == WsTask(w)
              s == task[t].sid
          IN  (/\ task[t].pc = "verify" /\ task'[t].pc # "verify"
               /\ s \in active /\ sess[s].state # CONNECTING) =>
                  /\ task'[t].pc \in {"rej_close", "done"}
                  /\ <<"start_live_conversation", s, FALSE>> \notin step'
                  /\ sess' = sess]_vars

\* C16: when the engine stream raises while the session is registered,
\* the step sets the state to ERROR and, the client's websocket being
\* open, sends the client a state_change on it and does not close it yet;
\* when that engine task later removes the registry entry the state is
\* ERROR; when it is done the entry is gone and the websocket closed.
C16_EngineErrorEndsInError ==
    [][\A w \in Wss :
          LET t  == EngTask(w)
              s  == task'[t].sid
              ws == sess[s].websocket
          IN  /\ (task'[t].raised /\ ~task[t].raised) =>
                    /\ sess'[s].state = ERROR
                    /\ (ws # 0 /\ ~wsock[ws].closed /\ ~wsock[ws].gone) =>
                          /\ <<"state_change", ws, FALSE>> \in step'
                          /\ ~wsock'[ws].closed
                          /\ s \in active'
              /\ (task[t].raised /\ task'[t] # task[t]
                      /\ s \in active /\ s \notin active') =>
                    sess'[s].state = ERROR
              /\ (task'[t].raised /\ task'[t].pc = "done") =>
                    /\ s \notin active'
                    /\ ws # 0 => wsock'[ws].closed]_vars

\* C17: whenever a created session is no longer registered, every engine
\* connection a handler opened for it has had its close (__aexit__)
\* invoked, and so has the websocket stored with that connection.
C17_RemovedMeansClosed ==
    \A s \in Sids : \A w \in Wss :
        (/\ s <= nextId /\ s \notin active
         /\ task[WsTask(w)].sid = s /\ conn[w].opened) =>
            /\ conn[w].closeCalls >= 1
            /\ wsock[w].closeCalls >= 1

\* C18: a GET of a session by a user who is not its owner is answered 403
\* or 404 with no field of the session, a DELETE by such a user raises 403
\* when the session is registered and never calls end_voice_session, both
\* leave the registry, the sessions, the connections and the tasks as
\* they were, and the list answers a user with that user's sessions only.
C18_HttpOwnerOnly ==
    /\ [](reply.op = "get" /\ sess[reply.sid].user_id # reply.user =>
             reply.status \in {403, 404} /\ reply.body = {})
    /\ [](reply.op = "list" =>
             \A e \in reply.body : sess[e.session_id].user_id = reply.user)
    /\ [][\A u \in Users, s \in Sids :
             /\ (get_voice_session(u, s) /\ sess[s].user_id # u) =>
                   /\ reply'.status = IF s \in active THEN 403 ELSE 404
                   /\ UNCHANGED <<active, sess, wsock, conn, task>>
             /\ ((\E now \in Readings : http_end_voice_session(u, s, now))
                     /\ sess[s].user_id # u) =>
                   /\ s \in active => <<"HTTPException_403", s, FALSE>> \in step'
                   /\ <<"end_voice_session", s, FALSE>> \notin step'
                   /\ UNCHANGED <<active, sess, wsock, conn, task>>]_vars

\* A DELETE by another user has just been refused with 403 on a
\* registered, connected session, and the last GET of that session was
\* refused with 403 too.
C18_HttpOwnerOnly_witness ==
    \E s \in Sids :
        /\ <<"HTTPException_403", s, FALSE>> \in step
        /\ s \in active /\ sess[s].state = CONNECTED
        /\ reply.op = "get" /\ reply.sid = s /\ reply.status = 403

\* C19: for every attach that has started its listen task, once the
\* handler of the websocket or the listen task has finished, both of them
\* eventually have.
C19_OtherLoopTerminates ==
    \A w \in Wss :
        (/\ task[EngTask(w)].pc # "idle"
         /\ task[WsTask(w)].pc = "done" \/ task[EngTask(w)].pc = "done")
            ~> (task[WsTask(w)].pc = "done" /\ task[EngTask(w)].pc = "done")

\* C20: an audio_stream message for a registered session that has its
\* Live session goes to live_session.send_audio of that session; and when
\* send_audio has returned for a chunk that opens an utterance (the
\* session is CONNECTED, or the assistant has answered and it is TALKING
\* or LISTENING), the state is PROCESSING.
C20_FirstChunkProcessing ==
    [][\A w \in Wss :
          LET t == WsTask(w)
              s == task[t].sid
          IN  /\ ((\E now \in Readings, lossy \in BOOLEAN :
                      HandlerMessage(w, "audio_stream", now, lossy))
                  /\ s \in active /\ sess[s].live_session # 0) =>
                    /\ task'[t].pc = "audio_send"
                    /\ task'[t].lsess = sess[s].live_session
              /\ ((\E lossy \in BOOLEAN : HandlerAudioSent(w, TRUE, lossy))
                  /\ s \in active
                  /\ sess[s].state \in {CONNECTED, LISTENING, TALKING}) =>
                    sess'[s].state = PROCESSING]_vars

\* C21: when _handle_transcript is done with a final fragment of a
\* registered session that has its websocket, whether its transcript send
\* raised (the call ends in the same step) or returned (the call ends when
\* it resumes), the state is LISTENING for role assistant and PROCESSING
\* for role user.
C21_FinalFragmentSetsState ==
    [][\A s \in Sids :
          LET n == Len(fragLog'[s])
              f == fragLog'[s][n]
          IN  /\ (/\ n > Len(fragLog[s]) /\ f.is_final
                  /\ sess[s].websocket # 0
                  /\ ~\E t \in Tasks : /\ task'[t].pc = "tr_sent"
                                       /\ task[t].pc # "tr_sent") =>
                    sess'[s].state =
                        IF f.role = "assistant" THEN LISTENING ELSE PROCESSING
              /\ \A t \in Tasks :
                    (/\ task[t].pc = "tr_sent" /\ task'[t].pc # "tr_sent"
                     /\ task[t].sid = s /\ task[t].final /\ s \in active) =>
                        sess'[s].state =
                            IF task[t].role = "assistant" THEN LISTENING
                                                          ELSE PROCESSING]_vars

\* C22: an audio message read for a registered session is sent to the
\* client's websocket as an audio_chunk whenever that websocket is usable,
\* and changes nothing of the session in that step; when the send has
\* returned and the session is still registered the state is TALKING; and
\* the state becomes TALKING in no other step, so never when the send
\* raised.
C22_AudioThenTalking ==
    [][\A w \in Wss :
          LET t  == EngTask(w)
              s  == task[t].sid
              ws == sess[s].websocket
          IN  /\ ((\E m \in {"audio", "bytes"}, now \in Readings,
                      lossy \in BOOLEAN : EngineMessage(w, m, now, lossy))
                  /\ s \in active) =>
                    /\ sess' = sess
                    /\ (ws # 0 /\ ~wsock[ws].closed /\ ~wsock[ws].gone) =>
                          /\ task'[t].pc = "audio_sent"
                          /\ <<"audio_chunk", ws, FALSE>> \in step'
                    /\ task'[t].pc # "audio_sent" =>
                          <<"audio_chunk", ws, FALSE>> \notin step'
              /\ (/\ task[t].pc = "audio_sent" /\ task'[t].pc # "audio_sent"
                  /\ s \in active) =>
                    sess'[s].state = TALKING
              /\ \A x \in Sids :
                    (sess'[x].state = TALKING /\ sess[x].state # TALKING) =>
                        \E v \in Wss :
                            /\ task[EngTask(v)].pc = "audio_sent"
                            /\ task'[EngTask(v)].pc # "audio_sent"
                            /\ task[EngTask(v)].sid = x]_vars

\* The audio_chunk send has returned and the registered session has just
\* been moved to TALKING, with the client told.
C22_AudioThenTalking_witness ==
    \E w \in Wss :
        LET s == task[EngTask(w)].sid IN
        /\ task[EngTask(w)].pc = "recv"
        /\ s \in active /\ sess[s].state = TALKING
        /\ <<"state_change", sess[s].websocket, FALSE>> \in step

\* C23: of two executions that get the same audio_stream chunks and the
\* same Live API messages and differ only in their start_speaking,
\* stop_speaking and audio_end messages, the session states agree at every
\* step.
C23_SpeakingFlagNotAuthoritative ==
    TwinSynced => sess[1].state = sess[2].state

\* C24: the step that handles a ping read from a websocket sends a pong
\* on that websocket and changes nothing else: the registry, every
\* session record (state, transcript, is_speaking), the Live API
\* connections and every other task are as before, and the handler is
\* back at its receive, not in a send to the Live API.
C24_PingOnlyPongs ==
    [][\A w \in Wss :
          (\E now \in Readings, lossy \in BOOLEAN :
               HandlerMessage(w, "ping", now, lossy)) =>
             /\ step' = {<<"pong", w, FALSE>>}
             /\ UNCHANGED <<active, sess, conn, fragLog, delFailed>>
             /\ wsock'[w].closed = wsock[w].closed
             /\ \A v \in Wss \ {w} : wsock'[v] = wsock[v]
             /\ task'[WsTask(w)].pc = "recv"
             /\ \A t \in Tasks \ {WsTask(w)} : task'[t] = task[t]]_vars

\* A pong has just been sent for a registered session that is in
\* conversation.
C24_PingOnlyPongs_witness ==
    \E w \in Wss :
        LET s == task[WsTask(w)].sid IN
        /\ step = {<<"pong", w, FALSE>>}
        /\ s \in active /\ sess[s].state \in {PROCESSING, TALKING, LISTENING}

\* C25: the step that handles invalid JSON, a message of unknown type or
\* an audio_stream message without audio, read from a websocket, sends an
\* error event on that websocket and nothing else, leaves the registry
\* and every session record (state, transcript) as they were, and puts the
\* handler back at its receive.
C25_BadMessageAnsweredNotFatal ==
    [][\A w \in Wss :
          (\E m \in {"bad_json", "unknown", "audio_empty"},
              now \in Readings, lossy \in BOOLEAN :
                  HandlerMessage(w, m, now, lossy)) =>
             /\ step' = {<<"error", w, FALSE>>}
             /\ "error" \in wsock'[w].got
             /\ ~wsock'[w].closed
             /\ UNCHANGED <<active, sess, conn>>
             /\ task'[WsTask(w)].pc = "recv"]_vars

\* An error event has just been sent to a client whose handler is back in
\* its message loop, the session registered and in conversation.
C25_BadMessageAnsweredNotFatal_witness ==
    \E w \in Wss :
        LET s == task[WsTask(w)].sid IN
        /\ step = {<<"error", w, FALSE>>}
        /\ task[WsTask(w)].pc = "recv"
        /\ s \in active /\ sess[s].state \in {PROCESSING, TALKING, LISTENING}
        /\ Len(sess[s].transcript) > 0

\* C26: when the greeting's send_text into the engine connection fails,
\* start_live_conversation returns True (no failure is reported to the
\* client) with the session registered in state CONNECTED and its engine
\* task running, and conversation_started stays false; it is set only by
\* a greeting whose send completed.
C26_GreetingFailureNotFatal ==
    [][\A w \in Wss :
          LET s == task[WsTask(w)].sid IN
          /\ (\E now \in Readings, lossy \in BOOLEAN :
                 HandlerGreeted(w, FALSE, now, lossy)) =>
                /\ s \in active
                /\ sess[s].state = CONNECTED
                /\ task[EngTask(w)].pc \notin {"idle", "done"}
                /\ <<"error", w, FALSE>> \notin step'
                /\ s \in active' => ~sess'[s].conversation_started
          /\ (/\ s \in active /\ s \in active'
              /\ ~sess[s].conversation_started
              /\ sess'[s].conversation_started) =>
                \E now \in Readings, lossy \in BOOLEAN :
                    HandlerGreeted(w, TRUE, now, lossy)]_vars

\* C27: whenever end_voice_session returns to its caller (the websocket
\* handler or the DELETE request), at once or after its awaits of
\* __aexit__ and websocket.close(), the session id is absent from the
\* registry and the caller goes on, whether or not __aexit__ or
\* websocket.close() raised on the way.
C27_TeardownStepsGuarded ==
    [][LET InEnd == {"evs_aexit", "cs_close"}
           Callers == {WsTask(w) : w \in Wss} \cup {HttpTask}
       IN
       /\ \A t \in Callers :
             (task[t].pc \in InEnd /\ task'[t].pc \notin InEnd) =>
                /\ task[t].sid \notin active'
                /\ task'[t].pc \in {"recv", "done", "idle"}
       /\ \A s \in Sids :
             (/\ <<"end_voice_session", s, FALSE>> \in step'
              /\ \A t \in Callers :
                    task'[t].pc \in InEnd => task[t].pc \in InEnd) =>
                s \notin active']_vars

\* end_voice_session has just returned for a session that was registered
\* when it was called, after __aexit__ raised on a connection already
\* exited and websocket.close() raised on a socket already closed.
C27_TeardownStepsGuarded_witness ==
    \E s \in Sids, w \in Wss :
        /\ <<"end_voice_session", s, FALSE>> \in step
        /\ sess[s].state = ENDED /\ sess[s].websocket = w
        /\ sess[s].live_connection = w
        /\ conn[w].closeCalls >= 2
        /\ wsock[w].closeCalls >= 2
        /\ s \notin active
        /\ task[HttpTask].pc = "idle"
        /\ task[WsTask(w)].pc = "cs_close"

\* C28: a step taken for session a (attach, audio input, Live API message,
\* state update, end, cleanup) leaves every other session b as it was: its
\* VoiceSession record with its transcript, its stored handles and what
\* they refer to, its place in the registry.
C28_NoCrossSessionMutation ==
    [][\A a, b \in Sids :
          (a # b /\ StepFor(a)) =>
             /\ sess'[b] = sess[b]
             /\ (b \in active') = (b \in active)
             /\ sess[b].websocket # 0 =>
                   wsock'[sess[b].websocket] = wsock[sess[b].websocket]
             /\ sess[b].live_connection # 0 =>
                   conn'[sess[b].live_connection] =
                       conn[sess[b].live_connection]
             /\ delFailed'[b] = delFailed[b]
             /\ fragLog'[b] = fragLog[b]]_vars

\* Both sessions are in conversation, each with a transcript entry, and a
\* step has just been taken for one of them: a state change sent to its
\* client.
C28_NoCrossSessionMutation_witness ==
    /\ \A s \in Sids :
          /\ s \in active /\ Len(sess[s].transcript) > 0
          /\ sess[s].websocket = s
    /\ sess[1].state = LISTENING /\ sess[2].state = PROCESSING
    /\ <<"state_change", 1, FALSE>> \in step

\* C29: every entry of VoiceSession.transcript is a final fragment read
\* from the Live API stream, under its role, and entries of the same role
\* stand in the order in which their fragments were read: of two such
\* entries the earlier one is the fragment read first.
C29_TranscriptInReadOrder ==
    \A s \in Sids :
        LET tr == sess[s].transcript IN
        /\ \A i \in 1..Len(tr) :
              /\ tr[i].text \in 1..Len(fragLog[s])
              /\ fragLog[s][tr[i].text].is_final
              /\ fragLog[s][tr[i].text].role = tr[i].role
        /\ \A i, j \in 1..Len(tr) :
              (i < j /\ tr[i].role = tr[j].role) => tr[i].text < tr[j].text

\* Two assistant fragments have been read by the listen task of a session
\* and both have their entries.
C29_TranscriptInReadOrder_witness ==
    \E s \in Sids :
        /\ Len(sess[s].transcript) >= 2
        /\ sess[s].transcript[1].role = "assistant"
        /\ sess[s].transcript[2].role = "assistant"
        /\ sess[s].transcript[1].text # sess[s].transcript[2].text
        /\ \E w \in Wss : task[EngTask(w)].sid = s
                            /\ task[EngTask(w)].pc \in {"recv", "tr_sent"}

\* C30: when the listen task of a registered session whose client is
\* there reads a usage message from the Live API stream, a usage event is
\* sent on the session's websocket, and the session's state and transcript
\* stay as they were.
C30_UsageForwarded ==
    [][\A w \in Wss :
          LET s == task[EngTask(w)].sid IN
          (/\ \E now \in Readings, lossy \in BOOLEAN :
                 EngineMessage(w, "usage", now, lossy)
           /\ s \in active
           /\ sess[s].websocket # 0
           /\ ~wsock[sess[s].websocket].gone
           /\ ~wsock[sess[s].websocket].closed) =>
              /\ <<"usage", sess[s].websocket, FALSE>> \in step'
              /\ sess'[s].state = sess[s].state
              /\ sess'[s].transcript = sess[s].transcript]_vars

\* C31: at every moment a registered session has at most one engine
\* listen task that has not finished, at most one websocket handler in its
\* message loop, and at most one Live API connection that is open.
C31_OneTaskPairPerSession ==
    \A s \in active :
        /\ Cardinality({w \in Wss :
              /\ task[EngTask(w)].sid = s
              /\ task[EngTask(w)].pc \notin {"idle", "done"}}) <= 1
        /\ Cardinality({w \in Wss :
              /\ task[WsTask(w)].sid = s
              /\ task[WsTask(w)].pc \in {"recv", "audio_send"}}) <= 1
        /\ Cardinality({w \in Wss :
              /\ task[WsTask(w)].sid = s
              /\ conn[w].opened /\ ~conn[w].exited}) <= 1

\* C32: a step in which end_voice_session ends a registered session
\* leaves total_duration_seconds at zero when connected_at is unset, and
\* otherwise at the whole seconds of ended_at minus connected_at, not
\* negative; before the end it is zero, and after it no other step changes
\* it, ended_at or a connected_at that was set, so that the equality stays.
C32_DurationFromTimestamps ==
    [][\A s \in Sids :
          LET ends == /\ s \in active
                      /\ <<"end_voice_session", s, FALSE>> \in step'
              v  == sess[s]
              v1 == sess'[s]
          IN
          /\ ends =>
                /\ v1.ended_at # 0
                /\ v.connected_at = 0 => v1.total_duration_seconds = 0
                /\ v.connected_at # 0 =>
                      /\ v1.total_duration_seconds =
                            (v1.ended_at - v1.connected_at)
                                \div TicksPerSecond
                      /\ v1.total_duration_seconds >= 0
          /\ (~ends /\ v.ended_at = 0) => v1.total_duration_seconds = 0
          /\ (~ends /\ v.ended_at # 0) =>
                /\ v1.total_duration_seconds = v.total_duration_seconds
                /\ v1.ended_at = v.ended_at
                /\ v.connected_at # 0 => v1.connected_at = v.connected_at]_vars

\* C33: once the listen task of an attach exists, from the moment the
\* client has gone, the handler has left its message loop (end_session,
\* disconnect) or the listen task has left its stream (exhausted, raised),
\* the session is eventually absent from active_sessions.
C33_TeardownAlwaysHappens ==
    \A w \in Wss :
        (/\ task[EngTask(w)].pc # "idle"
         /\ \/ wsock[w].gone
            \/ task[WsTask(w)].pc \in {"evs_aexit", "cs_close", "done"}
            \/ task[EngTask(w)].pc \in {"err_sent", "cs_close", "done"})
            ~> (task[WsTask(w)].sid \notin active)

\* A connected session whose client dropped: the handler saw it, ran its
\* finally to the end, and the entry is gone.
C33_TeardownAlwaysHappens_witness ==
    \E w \in Wss :
        /\ task[EngTask(w)].pc # "idle"
        /\ wsock[w].gone /\ task[WsTask(w)].sawDrop
        /\ task[WsTask(w)].pc = "done"
        /\ sess[task[WsTask(w)].sid].connected_at # 0
        /\ task[WsTask(w)].sid \notin active

\* C34: a step in which end_voice_session is called, or the finally of a
\* listen task calls _cleanup_session, for a session id that is not in
\* active_sessions, by a task that does nothing else in the step (it
\* resumes neither start_live_conversation nor an earlier teardown), leaves
\* the registry, the session's state, ended_at and
\* duration, every Live API connection and every websocket's closing as
\* they were, with no KeyError raised inside; and
\* get_active_sessions_count is the number of ids registered.
C34_RemovalIdempotent ==
    [][/\ \A s \in Sids :
             (/\ s \notin active
              /\ \A t \in Tasks :
                    task[t].pc \notin {"connect", "evs_aexit", "cs_close"}
                        \/ task'[t] = task[t]
              /\ \/ <<"end_voice_session", s, FALSE>> \in step'
                 \/ \E w \in Wss :
                       /\ task[EngTask(w)].sid = s
                       /\ EngineExhausted(w) \/ EngineErrSent(w)) =>
                /\ active' = active
                /\ sess'[s].state = sess[s].state
                /\ sess'[s].ended_at = sess[s].ended_at
                /\ sess'[s].total_duration_seconds =
                      sess[s].total_duration_seconds
                /\ conn' = conn
                /\ \A w \in Wss :
                      /\ wsock'[w].closed = wsock[w].closed
                      /\ wsock'[w].closeCalls = wsock[w].closeCalls
                /\ delFailed' = delFailed
                /\ \A t \in Tasks :
                      task'[t].pc \notin {"evs_aexit", "cs_close"}
                          \/ task'[t] = task[t]
       /\ get_active_sessions_count' =
             Cardinality({s \in Sids : s \in active'})]_vars

\* The handler's finally has just called end_voice_session for a session
\* that the listen task's cleanup had already removed after an error.
C34_RemovalIdempotent_witness ==
    \E s \in Sids, w \in Wss :
        /\ <<"end_voice_session", s, FALSE>> \in step
        /\ s \notin active /\ sess[s].state = ERROR
        /\ sess[s].websocket = w /\ wsock[w].closeCalls = 1
        /\ task[WsTask(w)].pc = "done" /\ task[EngTask(w)].pc = "done"
        /\ conn[w].closeCalls = 0

\* C35: after every step, a registered session in state CONNECTED,
\* LISTENING, PROCESSING or TALKING has connected_at set and holds its
\* Live API session, its Live API connection and its websocket; and no
\* step takes a session from CONNECTING to LISTENING, PROCESSING or
\* TALKING.
C35_ConversingHasHandles ==
    [][\A s \in Sids :
          /\ (/\ s \in active'
              /\ sess'[s].state \in
                    {CONNECTED, LISTENING, PROCESSING, TALKING}) =>
                /\ sess'[s].connected_at # 0
                /\ sess'[s].live_session # 0
                /\ sess'[s].live_connection # 0
                /\ sess'[s].websocket # 0
          /\ sess[s].state = CONNECTING =>
                sess'[s].state \notin {LISTENING, PROCESSING, TALKING}]_vars

\* A registered session in state TALKING with its timestamps and handles,
\* a transcript entry behind it.
C35_ConversingHasHandles_witness ==
    \E s \in active :
        /\ sess[s].state = TALKING
        /\ sess[s].connected_at # 0 /\ sess[s].websocket # 0
        /\ sess[s].live_connection # 0
        /\ Len(sess[s].transcript) > 0
        /\ <<"state_change", sess[s].websocket, FALSE>> \in step

\* C36: in every state, for every registered session, the list
\* session_data["transcript"] that get_session_transcript returns and
\* VoiceSession.transcript hold the same entries in the same order.
C36_TranscriptBuffersAgree ==
    \A s \in active : sess[s].sd_transcript = sess[s].transcript

\* A registered session in conversation whose two lists hold the same two
\* entries, its client in the message loop where get_transcript is served.
C36_TranscriptBuffersAgree_witness ==
    \E s \in active, w \in Wss :
        /\ Len(sess[s].sd_transcript) = 2
        /\ sess[s].sd_transcript = sess[s].transcript
        /\ sess[s].transcript[1] # sess[s].transcript[2]
        /\ task[WsTask(w)].sid = s /\ task[WsTask(w)].pc = "recv"
        /\ ~wsock[w].gone /\ ~wsock[w].closed

\* C37: a step of the listen task of websocket w that sends audio_chunk,
\* transcript or state_change to the client, closes the websocket or
\* removes the session from active_sessions comes after the connected
\* event has been sent on w; and a handler in its message loop has sent
\* connected to a client that was there.
C37_ConnectedComesFirst ==
    [][\A w \in Wss :
          LET s == task[EngTask(w)].sid IN
          /\ (/\ task'[EngTask(w)] # task[EngTask(w)]
              /\ task[EngTask(w)].pc # "idle"
              /\ \/ \E ev \in {"audio_chunk", "transcript", "state_change"},
                       f \in BOOLEAN : <<ev, w, f>> \in step'
                 \/ wsock'[w].closed /\ ~wsock[w].closed
                 \/ s \in active /\ s \notin active') =>
                "connected" \in wsock[w].got
          /\ (task'[WsTask(w)].pc = "recv" /\ ~wsock'[w].gone) =>
                "connected" \in wsock'[w].got]_vars

\* C38: when the handler of an authorized attach whose Live API
\* connection failed to open calls end_voice_session, it has sent its
\* client an error event and closed the websocket; when it has finished,
\* the session is absent from active_sessions; and an attach whose session
\* check comes after that is rejected without a call of
\* start_live_conversation.
C38_FailedOpenEndsSession ==
    [][\A w \in Wss :
          LET t == WsTask(w)
              s == task'[t].sid
          IN
          /\ (/\ task'[t].openFailed /\ task'[t] # task[t]
              /\ <<"end_voice_session", s, FALSE>> \in step') =>
                /\ "error" \in wsock'[w].got
                /\ wsock'[w].closed /\ wsock'[w].code = 1000
          /\ (task'[t].openFailed /\ task'[t].pc = "done") =>
                s \notin active'
          /\ (/\ task[t].pc = "verify" /\ task'[t].pc # "verify"
              /\ \E v \in Wss :
                    /\ task[WsTask(v)].openFailed
                    /\ task[WsTask(v)].pc = "done"
                    /\ task[WsTask(v)].sid = s) =>
                /\ task'[t].pc = "rej_close"
                /\ <<"start_live_conversation", s, FALSE>> \notin step']_vars

\* The first attach failed to open its Live API connection: its client got
\* the error event, the websocket is closed and the session is gone; a
\* second attach to the session, checked afterwards, has been closed with
\* code 1008.
C38_FailedOpenEndsSession_witness ==
    \E s \in Sids :
        /\ task[WsTask(1)].openFailed /\ task[WsTask(1)].pc = "done"
        /\ task[WsTask(1)].sid = s /\ s \notin active
        /\ "error" \in wsock[1].got /\ wsock[1].closed
        /\ task[WsTask(2)].sid = s /\ task[WsTask(2)].unauth
        /\ task[WsTask(2)].pc = "done" /\ wsock[2].code = 1008
        /\ task[EngTask(2)].pc = "idle"

\* C39: a session id removed from active_sessions is never registered
\* again, and only create_voice_session, for an id it has not produced
\* before, adds an entry.  Every call made for a removed id after the
\* removal -- send_audio_input and send_audio_stream_end from the message
\* loop, _process_live_message, _update_session_state, _cleanup_session
\* from a listen task, end_voice_session from a handler whose client has
\* gone -- changes neither the registry, nor the session's data, nor a
\* Live API connection, nor a websocket, sends nothing to a client and no
\* audio to the Live API.
C39_RemovedStaysRemoved ==
    /\ [][\A s \in Sids :
             /\ (s \in active' /\ s \notin active) =>
                   /\ nextId = s - 1 /\ nextId' = s
                   /\ sess[s] = NoSession
             /\ (s \notin active /\ s <= nextId) => s \notin active']_vars
    /\ [][\A w \in Wss :
             LET quiet == /\ active' = active /\ sess' = sess
                          /\ conn' = conn /\ wsock' = wsock
                          /\ \A e \in step' : e[1] \notin
                                {"audio_chunk", "transcript", "state_change",
                                 "usage", "error"}
             IN
             /\ (/\ task[WsTask(w)].sid \notin active
                 /\ \E m \in {"audio_stream", "audio_end"} :
                       HandlerMessage(w, m, LastStamp, FALSE)) =>
                   quiet /\ task'[WsTask(w)].pc = "recv"
             /\ (/\ task[WsTask(w)].sid \notin active
                 /\ HandlerDisconnected(w, LastStamp)) => quiet
             /\ (/\ task[EngTask(w)].sid \notin active
                 /\ \/ \E m \in LiveMessages :
                          EngineMessage(w, m, LastStamp, FALSE)
                    \/ EngineAudioSent(w, FALSE)
                    \/ TranscriptSent(EngTask(w), FALSE)
                    \/ EngineError(w, FALSE)
                    \/ EngineErrSent(w)
                    \/ EngineExhausted(w)) =>
                   quiet /\ task'[EngTask(w)].pc \in {"recv", "done"}]_vars

\* The session has been removed while the handler of websocket 1 is in its
\* message loop with its client there, and the listen task of websocket 2
\* reads an open Live API connection; the handler has just called
\* send_audio_input for the removed id and is back in its loop.
C39_RemovedStaysRemoved_witness ==
    \E s \in Sids :
        /\ s \notin active /\ s <= nextId
        /\ <<"send_audio_input", s, FALSE>> \in step
        /\ task[WsTask(1)].sid = s /\ task[WsTask(1)].pc = "recv"
        /\ ~wsock[1].closed /\ ~wsock[1].gone
        /\ task[EngTask(2)].sid = s /\ task[EngTask(2)].pc = "recv"
        /\ ~conn[task[EngTask(2)].lsess].exited
====
